---- MODULE Spec2Model ----
(***************************************************************************)
(* Verification model of the Glintt test harness                           *)
(* (src/backend/glintt-tests and src/examples/Glintt).                     *)
(*                                                                         *)
(* Strings the code inspects character by character (timestamps) are       *)
(* sequences of one-character strings.  Identifiers that the code only     *)
(* compares for equality (patient ids, appointment ids, tokens) are TLA+   *)
(* strings; "" is Python's '' and is falsy.                                *)
(***************************************************************************)
EXTENDS Integers, Sequences, FiniteSets, TLC

VARIABLES
    \* ---- find_appointment_by_time applied to drawn inputs (SpecFind)
    fpc,            \* "call" before the call, "ret" after it, "again" after a repeated call
    fa_appts,       \* the appointments argument
    fa_target,      \* the target_datetime argument
    fa_patient,     \* the patient_id argument
    fa_result,      \* the returned element, or None
    \* ---- search_slots applied to a drawn response (SpecSlots)
    spc,            \* "call" before the call, "ret" after it
    sl_token,       \* self.token at the call
    sl_resp,        \* what the POST to ExternalSearchSlots answers
    sl_result       \* the returned list, or None

VARIABLES
    \* ---- one call of a method of GlinttTestClient (SpecCall)
    cpc,            \* "call" before the call, "ret" after it
    c_fn,           \* the method called
    c_tok,          \* self.token at the call
    c_slot,         \* the slot argument of schedule_appointment
    c_resp,         \* what the transport answers, if it is asked
    c_req,          \* the Authorization token of the request sent, if one was sent
    c_out           \* what the call returned or raised

VARIABLES
    \* ---- the transport run_tests is run against, every answer fixed in
    \* ---- advance (SpecMock)
    mock,
    \* the environment a client is constructed in
    environ,
    \* the last entry typed at the prompt of select_slot_interactive
    entry,
    \* schedule_result_<timestamp>.json, once glintt_schedule.py wrote it
    result_file,
    \* get_todays_appointments: skip, all_appointments, and the pages
    \* requested so far with what each was answered
    skip,
    all_appointments,
    page_log

VARIABLES
    \* ---- one process run of a harness script (Spec)
    script,         \* which script runs
    pc,             \* where the script stands
    token,          \* self.token of the client
    log,            \* the HTTP requests sent so far, in order
    passed,         \* TestResult.passed (run_tests)
    failed,         \* TestResult.failed (run_tests)
    exitCode,       \* the process exit code, Running while the process runs
    appointment_id, \* appointment_id (run_tests), episode_id (glintt_reschedule)
    schedule_time,  \* schedule_time (run_tests), original_time (glintt_reschedule)
    slots,          \* the list the last search_slots returned
    selected,       \* schedule_slot / reschedule_slot / selected_slot
    found,          \* <<found_at_new_time, found_at_old_time>> of run_tests
    auto_mode,      \* --auto (glintt_schedule, glintt_reschedule)
    iter,           \* the loop index of try_simplified_slot_search / search_with_variations
    all_results,    \* all_results of search_with_variations
    unique          \* what search_with_variations returned

findVars == <<fpc, fa_appts, fa_target, fa_patient, fa_result>>
slotVars == <<spc, sl_token, sl_resp, sl_result>>
callVars == <<cpc, c_fn, c_tok, c_slot, c_resp, c_req, c_out>>
localVars == <<appointment_id, schedule_time, slots, selected, found>>
loopVars == <<auto_mode, iter, all_results, unique>>
scriptVars == <<script, pc, token, log, passed, failed, exitCode, localVars, loopVars>>
pageVars == <<skip, all_appointments, page_log>>
vars == <<findVars, slotVars, callVars, mock, pageVars, environ, entry, result_file, scriptVars>>

-----------------------------------------------------------------------------
(* Bounds of the model *)

\* longest appointment list drawn for find_appointment_by_time
MaxAppts == 2

\* longest ExternalSearchSlot list drawn for search_slots
MaxSlots == 3

\* longest ExternalSearchSlot list and longest GET /Appointment list a
\* script run is answered with
MaxRunSlots == 2
MaxRunAppts == 2

-----------------------------------------------------------------------------
(* Values *)

\* Python's None, where the code compares identifiers
None == "None"

\* an Optional object: Nothing is Python's None, Some(x) the object x
Nothing == <<>>
Some(x) == <<x>>

\* a key that is missing from a JSON object whose value would be a timestamp
NoField == <<"absent">>

\* The second-resolution part of an ISO timestamp, e.g. 2025-09-24T10:00:00,
\* is one or two digits here; the fraction is "." and digits; the UTC
\* designator is a trailing "Z".
Bases == {<<"1">>, <<"2">>}
Fractions == {<<>>, <<".", "5">>}
Designators == {<<>>, <<"Z">>}
Timestamps == {b \o f \o z : b \in Bases, f \in Fractions, z \in Designators}

\* patient ids: the configured patient (client.patient_id, the argument of
\* every call of find_appointment_by_time), another patient, and "", which is
\* what .get('id', '') yields for a missing id
PatientId == "150847"
QueryPatients == {PatientId}
CandidatePatients == {PatientId, "999999", ""}

\* appointment records of GET /Appointment
Appointment(p, h, i, s) ==
    [patientId |-> p, appointmentHour |-> h, appointmentId |-> i, status |-> s]

SeqsUpTo(S, n) == UNION {[1..k -> S] : k \in 0..n}

\* JSON values of a flag, and a missing key
JTrue == "true"
JFalse == "false"
JNull == "null"
Absent == "absent"

\* Python truthiness of such a value (a missing key read with a falsy default)
Truthy(v) == v \notin {JFalse, JNull, Absent, "", None}

\* tokens; "" is an empty access_token
Tokens == {"tokenA", "tokenB"}

\* the exit code of a process that has not exited
Running == -1

\* slot records of ExternalSearchSlots.  payload: whether HumanResourceCode,
\* Duration and BookingID are all present.
Slot(t, occ, pl) == [SlotDateTime |-> t, Occupation |-> occ, payload |-> pl]

\* responses of ExternalSearchSlots: the transport raises, or answers a status
\* and a body; a body is a JSON object with optional ErrorDetails and
\* ExternalSearchSlot, or something else (shape "other": a list, no JSON)
SearchResponse(ex, st, sh, ed, sk, sl) ==
    [raises |-> ex, status |-> st, shape |-> sh, ErrorDetails |-> ed,
     slotsKey |-> sk, ExternalSearchSlot |-> sl]
\* ErrorDetails: missing, null or {}, an object with a falsy Error, an object
\* with a truthy Error
ErrorDetailsValues == {Absent, JNull, "errorFalsy", "errorTruthy"}
SearchResponsesOver(slotSet, n) ==
    {SearchResponse(TRUE, 0, "other", Absent, Absent, <<>>)}
    \cup {SearchResponse(FALSE, 500, "other", Absent, Absent, <<>>)}
    \cup {SearchResponse(FALSE, 200, "other", Absent, Absent, <<>>)}
    \cup {SearchResponse(FALSE, 200, "object", ed, sk, <<>>) :
            ed \in ErrorDetailsValues, sk \in {Absent, JNull}}
    \cup {SearchResponse(FALSE, 200, "object", ed, "list", sl) :
            ed \in ErrorDetailsValues, sl \in SeqsUpTo(slotSet, n)}

-----------------------------------------------------------------------------
(* String operations of the code *)

\* str.replace('Z', ''): every Z is removed, wherever it stands
ReplaceZ(s) == SelectSeq(s, LAMBDA c : c # "Z")

\* str.split('.')[0]: the text before the first '.', the whole text if none
SplitDot0(s) ==
    LET dots == {i \in 1..Len(s) : s[i] = "."}
    IN  IF dots = {} THEN s
        ELSE SubSeq(s, 1, (CHOOSE i \in dots : \A j \in dots : i <= j) - 1)

\* x.replace('Z', '').split('.')[0]
NoFractionNormalise(s) == ReplaceZ(s)
Normalise(s) == SplitDot0(ReplaceZ(s))

\* apt.get('appointmentHour', '')
get_appointmentHour(apt) ==
    IF apt.appointmentHour = NoField THEN <<>> ELSE apt.appointmentHour

\* apt.get('patientIdentifier', {}).get('id', '')
get_patient(apt) == apt.patientId

\* found_at_old_time.get('status', 'unknown')
get_status(apt) == IF apt.status = Absent THEN "unknown" ELSE apt.status

\* the condition of the loop body of find_appointment_by_time
TimeOnlyMatches(apt, target_datetime, patient_id) ==
    Normalise(get_appointmentHour(apt)) = Normalise(target_datetime)
Matches(apt, target_datetime, patient_id) ==
    /\ Normalise(get_appointmentHour(apt)) = Normalise(target_datetime)
    /\ get_patient(apt) = patient_id

\* index of the element the for loop returns, 0 when it falls through
LastFindIndex(appointments, target_datetime, patient_id) ==
    LET hits == {i \in 1..Len(appointments) :
                    Matches(appointments[i], target_datetime, patient_id)}
    IN  IF hits = {} THEN 0 ELSE CHOOSE i \in hits : \A j \in hits : j <= i
RECURSIVE FindFrom(_, _, _, _)
FindFrom(appointments, target_datetime, patient_id, i) ==
    IF i > Len(appointments) THEN 0
    ELSE IF Matches(appointments[i], target_datetime, patient_id) THEN i
    ELSE FindFrom(appointments, target_datetime, patient_id, i + 1)
FindIndex(appointments, target_datetime, patient_id) ==
    FindFrom(appointments, target_datetime, patient_id, 1)

\* GlinttTestClient.find_appointment_by_time
FirstAppointment(appointments, target_datetime, patient_id) ==
    IF appointments = <<>> THEN Nothing ELSE Some(appointments[1])
find_appointment_by_time(appointments, target_datetime, patient_id) ==
    LET i == FindIndex(appointments, target_datetime, patient_id)
    IN  IF i = 0 THEN Nothing ELSE Some(appointments[i])

-----------------------------------------------------------------------------
(* GlinttTestClient.search_slots *)

\* [s for s in slots if not s.get('Occupation', False)]
RECURSIVE AbsentIsOccupied(_)
AbsentIsOccupied(ss) ==
    IF ss = <<>> THEN <<>>
    ELSE IF Head(ss).Occupation \in {JFalse, JNull}
         THEN <<Head(ss)>> \o AbsentIsOccupied(Tail(ss))
         ELSE AbsentIsOccupied(Tail(ss))
\* no filter: the list as it came
AllSlots(ss) == ss

RECURSIVE available_slots(_)
available_slots(ss) ==
    IF ss = <<>> THEN <<>>
    ELSE IF ~Truthy(Head(ss).Occupation)
         THEN <<Head(ss)>> \o available_slots(Tail(ss))
         ELSE available_slots(Tail(ss))

\* whether the request goes out: _get_auth_headers() raises without a token,
\* inside the try block, before session.post is called
RequestSent(tok) == Truthy(tok)

\* the value search_slots returns: Nothing is None, Some(list) a list
search_slots(tok, resp) ==
    IF ~RequestSent(tok) THEN Nothing                 \* RuntimeError, caught
    ELSE IF resp.raises THEN Nothing                    \* except Exception
    ELSE IF resp.status # 200 THEN Nothing
    ELSE IF resp.shape # "object" THEN Nothing          \* data.get raises, caught
    ELSE IF resp.ErrorDetails = "errorTruthy" THEN Nothing
    ELSE IF resp.slotsKey = Absent THEN Some(<<>>)      \* data.get(..., [])
    ELSE IF resp.slotsKey = JNull THEN Nothing          \* iterating None raises
    ELSE Some(available_slots(resp.ExternalSearchSlot))

-----------------------------------------------------------------------------
(* GlinttTestClient.authenticate, get_appointments, schedule_appointment *)

\* responses of the token endpoint: the transport raises, or a status and a
\* body; a JSON object body carries access_token (a token, "" or missing)
AuthResponse(ex, st, sh, at) ==
    [raises |-> ex, status |-> st, shape |-> sh, access_token |-> at]
AuthResponses ==
    {AuthResponse(TRUE, 0, "other", Absent)}
    \cup {AuthResponse(FALSE, 401, "other", Absent)}
    \cup {AuthResponse(FALSE, 200, "other", Absent)}
    \cup {AuthResponse(FALSE, 200, "object", at) : at \in Tokens \cup {"", Absent}}

\* what authenticate returns: True after a 200 whose access_token can be
\* sliced (self.token[:20] raises on None, and the except returns False)
authenticate(resp) ==
    /\ ~resp.raises
    /\ resp.status = 200
    /\ resp.shape = "object"
    /\ resp.access_token # Absent

\* self.token after authenticate: token_data.get('access_token') once the
\* body of a 200 response is an object
token_after(tok, resp) ==
    IF ~resp.raises /\ resp.status = 200 /\ resp.shape = "object"
    THEN (IF resp.access_token = Absent THEN None ELSE resp.access_token)
    ELSE tok

\* responses of GET /Appointment
ApptResponse(ex, st, sh, l) == [raises |-> ex, status |-> st, shape |-> sh, list |-> l]
ApptResponsesOver(apptSet, n) ==
    {ApptResponse(TRUE, 0, "other", <<>>)}
    \cup {ApptResponse(FALSE, 500, "other", <<>>)}
    \cup {ApptResponse(FALSE, 200, "other", <<>>)}
    \cup {ApptResponse(FALSE, 200, "list", l) : l \in SeqsUpTo(apptSet, n)}

\* GlinttTestClient.get_appointments: Nothing is None, Some(list) the list
get_appointments(tok, resp) ==
    IF ~RequestSent(tok) THEN Nothing
    ELSE IF resp.raises THEN Nothing
    ELSE IF resp.status # 200 THEN Nothing
    ELSE IF resp.shape # "list" THEN Nothing            \* Unexpected response format
    ELSE Some(resp.list)

\* responses of ExternalScheduleAppointment.  shape: "object" (a non-empty JSON
\* object), "emptyObject" ({}), "list" (a non-empty list), "emptyList" ([]),
\* "other" (no JSON: response.json() raises)
ScheduleResponse(ex, st, sh, ed, id) ==
    [raises |-> ex, status |-> st, shape |-> sh, errorDetails |-> ed, appointmentID |-> id]
AppointmentIds == {"A1", "A2"}
ScheduleResponses ==
    {ScheduleResponse(TRUE, 0, "other", Absent, Absent)}
    \cup {ScheduleResponse(FALSE, 500, "other", Absent, Absent)}
    \cup {ScheduleResponse(FALSE, 200, sh, Absent, Absent) :
            sh \in {"other", "emptyObject", "list", "emptyList"}}
    \cup {ScheduleResponse(FALSE, 200, "object", ed, id) :
            ed \in {Absent, JNull, "error"}, id \in AppointmentIds \cup {Absent}}

IdBeatsError(tok, resp) ==
    IF ~RequestSent(tok) \/ resp.raises \/ resp.status # 200 \/ resp.shape = "other"
    THEN Nothing
    ELSE IF /\ resp.shape = "object" /\ Truthy(resp.errorDetails)
            /\ resp.appointmentID = Absent THEN Nothing
    ELSE Some(resp)

\* GlinttTestClient.schedule_appointment once the request body is built:
\* Nothing is None, Some(resp) the response body
schedule_appointment(tok, resp) ==
    IF ~RequestSent(tok) THEN Nothing
    ELSE IF resp.raises THEN Nothing
    ELSE IF resp.status # 200 THEN Nothing
    ELSE IF resp.shape = "other" THEN Nothing           \* response.json() raises
    ELSE IF resp.shape = "object" /\ Truthy(resp.errorDetails) THEN Nothing
    ELSE Some(resp)

\* Python truth value of what a client method returned
TruthyList(r) == r # Nothing /\ r[1] # <<>>
TruthyBody(r) == r # Nothing /\ r[1].shape \in {"object", "list"}

\* slot[...] of schedule_appointment and its callers raises KeyError when
\* the slot lacks the key
SlotComplete(slot) == slot.SlotDateTime # NoField /\ slot.payload

\* a in b for strings
IsSubstring(a, b) ==
    \E i \in 0..(Len(b) - Len(a)) : SubSeq(b, i + 1, i + Len(a)) = a

-----------------------------------------------------------------------------
(* SpecFind: find_appointment_by_time on drawn inputs *)

FindAppointments ==
    {Appointment(p, h, "A1", "SCHEDULED") :
        p \in CandidatePatients, h \in Timestamps \cup {NoField}}

IdleSlots ==
    /\ spc = "idle"
    /\ sl_token = None
    /\ sl_resp = SearchResponse(TRUE, 0, "other", Absent, Absent, <<>>)
    /\ sl_result = Nothing

\* _validate_config: the required variables, in the order of the list
required == <<"GLINTT_BASE_URL", "GLINTT_CLIENT_ID", "GLINTT_CLIENT_SECRET",
              "GLINTT_TENANT_ID", "GLINTT_FACILITY_ID", "GLINTT_USERNAME">>
RequiredNames == {required[i] : i \in 1..Len(required)}

\* os.getenv of a variable: Absent (None) when unset, else its text
EnvValues == {Absent, "", "set"}
Environments == [RequiredNames -> EnvValues]
Configured == [n \in RequiredNames |-> "set"]

\* no result file in the working directory
NoFile == <<>>

\* get_todays_appointments is not running
IdlePages ==
    /\ skip = 0
    /\ all_appointments = <<>>
    /\ page_log = <<>>

\* json.dump of a value of the output, json.load of it: None is written as
\* null and a string as a JSON string
json_dumps(v) == [json |-> "string", text |-> v]
json_null == [json |-> "null"]
LoadsNullAsText(j, none) == IF j.json = "null" THEN "null" ELSE j.text
json_loads(j, none) == IF j.json = "null" THEN none ELSE j.text

\* nothing typed yet
NoEntry == [kind |-> "none", n |-> 0, answer |-> "n"]

\* names the first missing variable only
FirstMissingOnly(env) ==
    LET miss(n) == ~Truthy(env[n])
        m == SelectSeq(required, miss)
    IN  IF m = <<>> THEN <<>> ELSE <<m[1]>>

\* missing = [name for name, value in required if not value]
validate_config(env) ==
    LET miss(n) == ~Truthy(env[n])
    IN  SelectSeq(required, miss)

EnvironmentError(missing) == [error |-> "EnvironmentError", missing |-> missing]

IdleScript ==
    /\ script = "none"
    /\ pc = "idle"
    /\ token = None
    /\ log = <<>>
    /\ passed = <<>>
    /\ failed = <<>>
    /\ exitCode = Running
    /\ appointment_id = None
    /\ schedule_time = NoField
    /\ slots = <<>>
    /\ selected = Nothing
    /\ found = <<Nothing, Nothing>>
    /\ auto_mode = FALSE
    /\ iter = 0
    /\ all_results = <<>>
    /\ unique = <<>>

IdleCall ==
    /\ cpc = "idle"
    /\ c_fn = "none"
    /\ c_tok = None
    /\ c_slot = Nothing
    /\ c_resp = Nothing
    /\ c_req = Nothing
    /\ c_out = [kind |-> "pending", value |-> Nothing]

\* the real transport: no answer is fixed in advance
NoMock == <<>>

InitFind ==
    /\ IdleSlots
    /\ IdleScript
    /\ IdleCall
    /\ mock = NoMock
    /\ environ = Configured
    /\ entry = NoEntry
    /\ result_file = NoFile
    /\ IdlePages
    /\ fpc = "call"
    /\ fa_appts \in SeqsUpTo(FindAppointments, MaxAppts)
    /\ fa_target \in Timestamps
    /\ fa_patient \in QueryPatients
    /\ fa_result = Nothing

\* the call returns
FindCall ==
    /\ fpc = "call"
    /\ fpc' = "ret"
    /\ fa_result' = find_appointment_by_time(fa_appts, fa_target, fa_patient)
    /\ UNCHANGED <<fa_appts, fa_target, fa_patient, slotVars, callVars, mock, pageVars, environ, entry, result_file, scriptVars>>

\* the same call on inputs of which one timestamp (the target, k = 0, or the
\* k-th candidate's appointmentHour) is replaced by another one
FindAgain ==
    /\ fpc = "ret"
    /\ fpc' = "again"
    /\ \E k \in 0..Len(fa_appts), t \in Timestamps :
        /\ fa_target' = IF k = 0 THEN t ELSE fa_target
        /\ fa_appts' = IF k = 0 THEN fa_appts
                       ELSE [fa_appts EXCEPT ![k].appointmentHour = t]
        /\ fa_result' = find_appointment_by_time(fa_appts', fa_target', fa_patient)
    /\ UNCHANGED <<fa_patient, slotVars, callVars, mock, pageVars, environ, entry, result_file, scriptVars>>

NextFind == FindCall \/ FindAgain

SpecFind == InitFind /\ [][NextFind]_vars

-----------------------------------------------------------------------------
(* Claims about find_appointment_by_time *)

\* the claims' words: "stripping the trailing Z and any .fraction"
StripTrailingZ(s) ==
    IF Len(s) > 0 /\ s[Len(s)] = "Z" THEN SubSeq(s, 1, Len(s) - 1) ELSE s
StripFraction(s) ==
    IF \E i \in 1..Len(s) : s[i] = "."
    THEN SubSeq(s, 1, (CHOOSE i \in 1..Len(s) :
                          s[i] = "." /\ \A j \in 1..(i - 1) : s[j] # ".") - 1)
    ELSE s
Stripped(s) == StripFraction(StripTrailingZ(s))

Qualifies(apt, T, patient) ==
    /\ apt.patientId = patient
    /\ apt.appointmentHour # NoField
    /\ Stripped(apt.appointmentHour) = Stripped(T)

\* C1: once find_appointment_by_time has returned, its result is the first
\* element, in list order, whose patient id equals the queried patient and
\* whose appointmentHour equals the target after both are stripped of the
\* trailing Z and the .fraction; it is None when no element qualifies.
C1_FirstQualifying ==
    fpc # "call" =>
        LET q == {i \in 1..Len(fa_appts) :
                    Qualifies(fa_appts[i], fa_target, fa_patient)}
        IN  IF q = {} THEN fa_result = Nothing
            ELSE \E i \in q :
                    /\ \A j \in q : i <= j
                    /\ fa_result = Some(fa_appts[i])

\* two qualifying candidates that differ, neither written like the target:
\* the first one is returned
C1_Witness ==
    /\ fpc = "ret"
    /\ Len(fa_appts) = 2
    /\ fa_appts[1] # fa_appts[2]
    /\ Qualifies(fa_appts[1], fa_target, fa_patient)
    /\ Qualifies(fa_appts[2], fa_target, fa_patient)
    /\ fa_appts[1].appointmentHour # fa_target
    /\ fa_result = Some(fa_appts[1])

\* two inputs differ only in .fraction parts and trailing Zs
SameUpToFractionAndZ(appts1, T1, appts2, T2) ==
    /\ Len(appts1) = Len(appts2)
    /\ Stripped(T1) = Stripped(T2)
    /\ \A i \in 1..Len(appts1) :
        /\ appts1[i].patientId = appts2[i].patientId
        /\ (appts1[i].appointmentHour = NoField) <=> (appts2[i].appointmentHour = NoField)
        /\ appts1[i].appointmentHour # NoField =>
                Stripped(appts1[i].appointmentHour) = Stripped(appts2[i].appointmentHour)

\* C9: replacing the target or a candidate's appointmentHour by a timestamp
\* that differs only in its .fraction and/or trailing Z leaves the result
\* the same: None in both calls, or the element at the same place of the list.
C9_FractionAndZIgnored ==
    [][ (fpc = "ret" /\ fpc' = "again"
          /\ SameUpToFractionAndZ(fa_appts, fa_target, fa_appts', fa_target'))
        => \/ fa_result = Nothing /\ fa_result' = Nothing
           \/ \E i \in 1..Len(fa_appts) :
                /\ fa_result = Some(fa_appts[i])
                /\ fa_result' = Some(fa_appts'[i]) ]_vars

\* a repeated call whose match is written differently from the target
C9_Witness ==
    /\ fpc = "again"
    /\ Len(fa_appts) = 2
    /\ fa_result = Some(fa_appts[2])
    /\ fa_appts[2].appointmentHour # fa_target
    /\ fa_appts[2].appointmentHour # ReplaceZ(fa_target)
    /\ fa_appts[1].patientId = fa_patient

\* C10: the result is None or an element of the list that carries the queried
\* patient id; it is None when no candidate carries the queried patient id.
C10_PatientRespected ==
    fpc # "call" =>
        /\ fa_result # Nothing =>
                /\ \E i \in 1..Len(fa_appts) : fa_result = Some(fa_appts[i])
                /\ fa_result[1].patientId = fa_patient
        /\ (\A i \in 1..Len(fa_appts) : fa_appts[i].patientId # fa_patient)
                => fa_result = Nothing

\* a candidate of another patient at the target time is passed over
C10_Witness ==
    /\ fpc = "ret"
    /\ Len(fa_appts) = 2
    /\ fa_appts[1].patientId = "999999"
    /\ fa_patient = "150847"
    /\ fa_appts[1].appointmentHour # NoField
    /\ Stripped(fa_appts[1].appointmentHour) = Stripped(fa_target)
    /\ fa_result = Some(fa_appts[2])

-----------------------------------------------------------------------------
(* SpecSlots: search_slots on a drawn response *)

IdleFind ==
    /\ fpc = "idle"
    /\ fa_appts = <<>>
    /\ fa_target = <<>>
    /\ fa_patient = PatientId
    /\ fa_result = Nothing

SlotTimes == {<<"1">>, <<"2">>}
SlotsDrawn ==
    {Slot(t, occ, TRUE) : t \in SlotTimes, occ \in {JTrue, JFalse, JNull, Absent}}

InitSlots ==
    /\ IdleFind
    /\ IdleScript
    /\ IdleCall
    /\ mock = NoMock
    /\ environ = Configured
    /\ entry = NoEntry
    /\ result_file = NoFile
    /\ IdlePages
    /\ spc = "call"
    /\ sl_token \in Tokens \cup {None}
    /\ sl_resp \in SearchResponsesOver(SlotsDrawn, MaxSlots)
    /\ sl_result = Nothing

SlotsCall ==
    /\ spc = "call"
    /\ spc' = "ret"
    /\ sl_result' = search_slots(sl_token, sl_resp)
    /\ UNCHANGED <<sl_token, sl_resp, findVars, callVars, mock, pageVars, environ, entry, result_file, scriptVars>>

NextSlots == SlotsCall

SpecSlots == InitSlots /\ [][NextSlots]_vars

\* a 200 response of the endpoint's shape that carries no error
SlotsAnswered ==
    /\ spc = "ret"
    /\ Truthy(sl_token)
    /\ ~sl_resp.raises
    /\ sl_resp.status = 200
    /\ sl_resp.shape = "object"
    /\ sl_resp.ErrorDetails # "errorTruthy"
    /\ sl_resp.slotsKey # JNull

\* C2: on a 200 response without error search_slots returns the slots of
\* ExternalSearchSlot whose Occupation is falsy or missing, each of them, in
\* the order of the response, and no slot whose Occupation is truthy.
C2_OnlyAvailableSlots ==
    SlotsAnswered =>
        LET all == sl_resp.ExternalSearchSlot
            free == {i \in 1..Len(all) : all[i].Occupation \in {JFalse, JNull, Absent}}
        IN  /\ sl_result # Nothing
            /\ Len(sl_result[1]) = Cardinality(free)
            /\ \A k \in 1..Len(sl_result[1]) :
                    \E i \in free :
                        /\ Cardinality({j \in free : j < i}) = k - 1
                        /\ sl_result[1][k] = all[i]

\* occupied and available slots interleaved, one without the Occupation key
C2_Witness ==
    /\ SlotsAnswered
    /\ Len(sl_resp.ExternalSearchSlot) = 3
    /\ sl_resp.ExternalSearchSlot[1].Occupation = Absent
    /\ sl_resp.ExternalSearchSlot[2].Occupation = JTrue
    /\ sl_resp.ExternalSearchSlot[3].Occupation = JFalse
    /\ sl_resp.ExternalSearchSlot[1].SlotDateTime # sl_resp.ExternalSearchSlot[3].SlotDateTime
    /\ Len(sl_result[1]) = 2

-----------------------------------------------------------------------------
(* What a script run is answered with *)

\* timestamps of slots and appointments in a script run: two written
\* differently for the same second, one for another second
RunTimes == {<<"1">>, <<"1", ".", "5", "Z">>, <<"2">>}

RunSlots ==
    {Slot(t, occ, pl) : t \in RunTimes \cup {NoField}, occ \in {JTrue, JFalse},
                        pl \in BOOLEAN}
RunSearchResponses == SearchResponsesOver(RunSlots, MaxRunSlots)

\* GET /Appointment where run_tests looks for an appointment id (it reads
\* patientIdentifier.id, appointmentHour and appointmentId, not status)
IdAppointments ==
    {Appointment(p, h, i, "SCHEDULED") : p \in {PatientId, "999999"},
                                         h \in RunTimes \cup {NoField},
                                         i \in AppointmentIds \cup {None}}
IdApptResponses == ApptResponsesOver(IdAppointments, MaxRunAppts)

\* GET /Appointment where run_tests verifies (it reads patientIdentifier.id,
\* appointmentHour and, of an appointment of the patient, status;
\* appointmentId is only printed).  A status is one of the three values the
\* service uses, or missing.
Statuses == {"SCHEDULED", "RESCHEDULED", "ANNULLED", Absent}
VerifyAppointments ==
    {Appointment(PatientId, h, "A1", st) : h \in RunTimes \cup {NoField}, st \in Statuses}
    \cup {Appointment("999999", h, "A1", "SCHEDULED") : h \in RunTimes \cup {NoField}}
VerifyApptResponses == ApptResponsesOver(VerifyAppointments, MaxRunAppts)

\* the remote call failed: the transport raised or the status is not 200
HttpFailure(resp) == resp.raises \/ resp.status # 200

\* ... or the body of ExternalSearchSlots carries a truthy ErrorDetails.Error
SearchFailure(resp) ==
    HttpFailure(resp) \/ (resp.shape = "object" /\ resp.ErrorDetails = "errorTruthy")

\* ... or the body of ExternalScheduleAppointment carries truthy errorDetails
ScheduleFailure(resp) ==
    HttpFailure(resp) \/ (resp.shape = "object" /\ Truthy(resp.errorDetails))

\* a request as sent: the endpoint, the call site, the Authorization token,
\* whether the client method took a failure branch (returned None or False),
\* whether what it returned is truthy, RescheduleFlag, the EpisodeID and the
\* ScheduleDate of the request body, and whether the remote call failed
\* the EpisodeType the request body carries next to the EpisodeID:
\* search_slots adds an episode of the given type (the callers give
\* "Consultas", which is also the default) when is_reschedule and episode_id
\* are truthy; schedule_appointment adds one of the given type when
\* is_reschedule, and {"EpisodeType": "Ficha-ID", "EpisodeID": patient_id}
\* otherwise
FichaIdAlways(ep, resched, episode) ==
    IF ep = "schedule" THEN "Ficha-ID" ELSE None
EpisodeType(ep, resched, episode) ==
    IF ep = "search" THEN (IF resched /\ Truthy(episode) THEN "Consultas" ELSE None)
    ELSE IF ep = "schedule" THEN (IF resched THEN "Consultas" ELSE "Ficha-ID")
    ELSE None

Req(ep, site, tok, fail, ok, resched, episode, time, remote) ==
    [ep |-> ep, site |-> site, tok |-> tok, failed |-> fail, ok |-> ok,
     reschedule |-> resched, episode |-> episode, time |-> time, remote |-> remote,
     etype |-> EpisodeType(ep, resched, episode)]

\* the token of the Authorization header: f'Bearer {self.token}'
HardCodedHeader(tok) == "tokenA"
AuthHeader(tok) == tok

\* the log after a client method ran: the request is there if it went out
Sent(tok, req) == IF RequestSent(tok) THEN Append(log, req) ELSE log

-----------------------------------------------------------------------------
(* SpecCall: one call of search_slots, schedule_appointment or
   get_appointments on a drawn token, slot and answer *)

MaxCallItems == 1

Methods == {"search_slots", "schedule_appointment", "get_appointments"}

\* self.token: never set, set to a token, or set to an empty access_token
CallTokens == Tokens \cup {None, ""}

\* the slot argument: with or without SlotDateTime, with or without the
\* other keys schedule_appointment reads
CallSlots == {Slot(t, JFalse, pl) : t \in {<<"1">>, NoField}, pl \in BOOLEAN}

CallResponses(fn) ==
    IF fn = "search_slots" THEN SearchResponsesOver(SlotsDrawn, MaxCallItems)
    ELSE IF fn = "schedule_appointment" THEN ScheduleResponses
    ELSE ApptResponsesOver(IdAppointments, MaxCallItems)

\* how a call ends
Returned(v) == [kind |-> "return", value |-> v]
Raised(e) == [kind |-> "raise", value |-> e]
Pending == [kind |-> "pending", value |-> Nothing]

\* the request a method sends, by the token of its Authorization header:
\* none when _get_auth_headers raises
AlwaysRequest(tok) == Some(AuthHeader(tok))
RequestOf(tok) == IF RequestSent(tok) THEN Some(AuthHeader(tok)) ELSE Nothing

InitCall ==
    /\ IdleFind
    /\ IdleSlots
    /\ IdleScript
    /\ mock = NoMock
    /\ environ = Configured
    /\ entry = NoEntry
    /\ result_file = NoFile
    /\ IdlePages
    /\ cpc = "call"
    /\ c_fn \in Methods
    /\ c_tok \in CallTokens
    /\ c_slot \in (IF c_fn = "schedule_appointment"
                   THEN {Some(sl) : sl \in CallSlots} ELSE {Nothing})
    /\ c_resp \in {Some(resp) : resp \in CallResponses(c_fn)}
    /\ c_req = Nothing
    /\ c_out = Pending

CallSearchSlots ==
    /\ cpc = "call"
    /\ c_fn = "search_slots"
    /\ cpc' = "ret"
    /\ c_req' = RequestOf(c_tok)
    /\ c_out' = Returned(search_slots(c_tok, c_resp[1]))
    /\ UNCHANGED <<c_fn, c_tok, c_slot, c_resp, findVars, slotVars, mock, pageVars, environ, entry, result_file, scriptVars>>

\* slot['SlotDateTime'] and the other keys are read before the try
CallScheduleAppointment ==
    /\ cpc = "call"
    /\ c_fn = "schedule_appointment"
    /\ cpc' = "ret"
    /\ IF SlotComplete(c_slot[1])
       THEN /\ c_req' = RequestOf(c_tok)
            /\ c_out' = Returned(schedule_appointment(c_tok, c_resp[1]))
       ELSE /\ c_req' = Nothing
            /\ c_out' = Raised("KeyError")
    /\ UNCHANGED <<c_fn, c_tok, c_slot, c_resp, findVars, slotVars, mock, pageVars, environ, entry, result_file, scriptVars>>

CallGetAppointments ==
    /\ cpc = "call"
    /\ c_fn = "get_appointments"
    /\ cpc' = "ret"
    /\ c_req' = RequestOf(c_tok)
    /\ c_out' = Returned(get_appointments(c_tok, c_resp[1]))
    /\ UNCHANGED <<c_fn, c_tok, c_slot, c_resp, findVars, slotVars, mock, pageVars, environ, entry, result_file, scriptVars>>

NextCall == CallSearchSlots \/ CallScheduleAppointment \/ CallGetAppointments

SpecCall == InitCall /\ [][NextCall]_vars

-----------------------------------------------------------------------------
(* SpecAuth: authenticate on a drawn answer of the token endpoint, then one
   call of search_slots, schedule_appointment or get_appointments *)

InitAuth ==
    /\ IdleFind
    /\ IdleSlots
    /\ IdleScript
    /\ mock = NoMock
    /\ environ = Configured
    /\ entry = NoEntry
    /\ result_file = NoFile
    /\ IdlePages
    /\ cpc = "auth"
    /\ c_fn = "authenticate"
    /\ c_tok \in CallTokens
    /\ c_slot = Nothing
    /\ c_resp \in {Some(resp) : resp \in AuthResponses}
    /\ c_req = Nothing
    /\ c_out = Pending

CallAuthenticate ==
    /\ cpc = "auth"
    /\ cpc' = "authenticated"
    /\ c_tok' = token_after(c_tok, c_resp[1])
    /\ c_out' = Returned(authenticate(c_resp[1]))
    /\ UNCHANGED <<c_fn, c_slot, c_resp, c_req, findVars, slotVars, mock, pageVars, environ, entry, result_file, scriptVars>>

\* the next call on the same client
FollowingCall ==
    /\ cpc = "authenticated"
    /\ cpc' = "ret"
    /\ \E fn \in Methods :
        \E resp \in CallResponses(fn),
           sl \in (IF fn = "schedule_appointment"
                   THEN {Some(cs) : cs \in CallSlots} ELSE {Nothing}) :
            /\ c_fn' = fn
            /\ c_resp' = Some(resp)
            /\ c_slot' = sl
            /\ IF fn = "schedule_appointment" /\ ~SlotComplete(sl[1])
               THEN /\ c_req' = Nothing
                    /\ c_out' = Raised("KeyError")
               ELSE /\ c_req' = RequestOf(c_tok)
                    /\ c_out' = Returned(
                          IF fn = "search_slots" THEN search_slots(c_tok, resp)
                          ELSE IF fn = "schedule_appointment"
                               THEN schedule_appointment(c_tok, resp)
                               ELSE get_appointments(c_tok, resp))
    /\ UNCHANGED <<c_tok, findVars, slotVars, mock, pageVars, environ, entry, result_file, scriptVars>>

NextAuth == CallAuthenticate \/ FollowingCall

SpecAuth == InitAuth /\ [][NextAuth]_vars

-----------------------------------------------------------------------------
(* GlinttTestClient(): the constructor reads the environment *)

\* __init__: _validate_config raises before the token and the session are set
GlinttTestClient(env) ==
    IF validate_config(env) = <<>> THEN Returned("client")
    ELSE Raised(EnvironmentError(validate_config(env)))

-----------------------------------------------------------------------------
(* run_tests.py *)

\* main: success = results.summary(); sys.exit(0 if success else 1)
ExitCodeOf(f) == IF Len(f) = 0 THEN 0 ELSE 1

\* the failure is recorded and the run goes on where it is
RT_KeepGoing(p, f) ==
    /\ passed' = p
    /\ failed' = f
    /\ UNCHANGED <<pc, exitCode>>

\* run_tests returns results and main exits
RT_Return(p, f) ==
    /\ passed' = p
    /\ failed' = f
    /\ pc' = "done"
    /\ exitCode' = ExitCodeOf(f)

\* an exception nobody catches: traceback, exit status 1
Crash ==
    /\ pc' = "crashed"
    /\ exitCode' = 1

\* Initialize client
RT_Construct ==
    /\ script = "run_tests"
    /\ pc = "construct"
    /\ c_out' = GlinttTestClient(environ)
    /\ IF c_out'.kind = "raise"
       THEN RT_Return(passed, Append(failed, "Configuration error"))
       ELSE /\ pc' = "authenticate"
            /\ UNCHANGED <<passed, failed, exitCode>>
    /\ UNCHANGED <<cpc, c_fn, c_tok, c_slot, c_resp, c_req>>
    /\ UNCHANGED <<findVars, slotVars, mock, pageVars, environ, entry, result_file>>
    /\ UNCHANGED <<loopVars, script, token, log, localVars>>

\* PHASE 1
RT_AuthenticateOn(resp) ==
    /\ script = "run_tests"
    /\ pc = "authenticate"
    /\ token' = token_after(token, resp)
    /\ log' = Append(log, Req("token", "authenticate", None, ~authenticate(resp),
                              authenticate(resp), FALSE, None, <<>>,
                              HttpFailure(resp)))
    /\ IF authenticate(resp)
       THEN /\ passed' = Append(passed, "Authentication successful")
            /\ pc' = "get_existing"
            /\ UNCHANGED <<failed, exitCode>>
       ELSE RT_Return(passed, Append(failed, "Authentication failed"))
    /\ UNCHANGED <<findVars, slotVars, callVars, mock, pageVars, environ, entry, result_file>>
    /\ UNCHANGED <<loopVars, script, localVars>>
RT_Authenticate ==
    /\ script = "run_tests"
    /\ pc = "authenticate"
    /\ \E resp \in AuthResponses : RT_AuthenticateOn(resp)

\* for apt in existing_appointments: the first appointment of the patient
RECURSIVE FirstOfPatientFrom(_, _)
FirstOfPatientFrom(appts, i) ==
    IF i > Len(appts) THEN 0
    ELSE IF get_patient(appts[i]) = PatientId THEN i
    ELSE FirstOfPatientFrom(appts, i + 1)

\* PHASE 2, the existing appointment
RT_GetExistingOn(resp) ==
    /\ script = "run_tests"
    /\ pc = "get_existing"
    /\ LET existing == get_appointments(token, resp)
            i == IF TruthyList(existing) THEN FirstOfPatientFrom(existing[1], 1) ELSE 0
        IN  /\ log' = Sent(token, Req("appointments", "existing", AuthHeader(token),
                                      existing = Nothing, TruthyList(existing),
                                      FALSE, None, <<>>,
                                      HttpFailure(resp)))
            /\ appointment_id' = IF i = 0 THEN None ELSE existing[1][i].appointmentId
            /\ schedule_time' = IF i = 0 THEN NoField ELSE existing[1][i].appointmentHour
            /\ passed' = IF i = 0 THEN passed
                         ELSE Append(passed, "Using existing appointment")
            /\ pc' = IF Truthy(appointment_id') THEN "search_reschedule"
                     ELSE "search_schedule"
    /\ UNCHANGED <<findVars, slotVars, callVars, mock, pageVars, environ, entry, result_file>>
    /\ UNCHANGED <<loopVars, script, token, failed, exitCode, slots, selected, found>>
RT_GetExisting ==
    /\ script = "run_tests"
    /\ pc = "get_existing"
    /\ \E resp \in IdApptResponses : RT_GetExistingOn(resp)

\* PHASE 2, no existing appointment: search and select the first slot
RT_SearchScheduleOn(resp) ==
    /\ script = "run_tests"
    /\ pc = "search_schedule"
    /\ LET schedule_slots == search_slots(token, resp)
        IN  /\ log' = Sent(token, Req("search", "schedule_slots", AuthHeader(token),
                                      schedule_slots = Nothing, TruthyList(schedule_slots),
                                      FALSE, None, <<>>,
                                      SearchFailure(resp)))
            /\ IF ~TruthyList(schedule_slots)
               THEN /\ RT_Return(passed, Append(failed, "No available slots for scheduling"))
                    /\ UNCHANGED <<slots, selected, schedule_time>>
               ELSE /\ passed' = Append(passed, "Found available slots")
                    /\ slots' = schedule_slots[1]
                    /\ UNCHANGED failed
                    /\ IF SlotComplete(schedule_slots[1][1])
                       THEN /\ selected' = Some(schedule_slots[1][1])
                            /\ schedule_time' = schedule_slots[1][1].SlotDateTime
                            /\ pc' = "schedule"
                            /\ UNCHANGED exitCode
                       ELSE /\ Crash                    \* KeyError
                            /\ UNCHANGED <<selected, schedule_time>>
    /\ UNCHANGED <<findVars, slotVars, callVars, mock, pageVars, environ, entry, result_file>>
    /\ UNCHANGED <<loopVars, script, token, appointment_id, found>>
RT_SearchSchedule ==
    /\ script = "run_tests"
    /\ pc = "search_schedule"
    /\ \E resp \in RunSearchResponses : RT_SearchScheduleOn(resp)

\* PHASE 2, the schedule request
RT_ScheduleOn(resp) ==
    /\ script = "run_tests"
    /\ pc = "schedule"
    /\ LET schedule_result == schedule_appointment(token, resp)
        IN  /\ log' = Sent(token, Req("schedule", "schedule", AuthHeader(token),
                                      schedule_result = Nothing, TruthyBody(schedule_result),
                                      FALSE, PatientId, selected[1].SlotDateTime,
                                      ScheduleFailure(resp)))
            /\ IF ~TruthyBody(schedule_result)
               THEN RT_Return(passed, Append(failed, "Schedule appointment failed"))
               ELSE /\ pc' = "lookup"
                    /\ UNCHANGED <<passed, failed, exitCode>>
    /\ slots' = <<>>
    /\ UNCHANGED <<findVars, slotVars, callVars, mock, pageVars, environ, entry, result_file>>
    /\ UNCHANGED <<loopVars, script, token, appointment_id, schedule_time, selected, found>>
RT_Schedule ==
    /\ script = "run_tests"
    /\ pc = "schedule"
    /\ \E resp \in ScheduleResponses : RT_ScheduleOn(resp)

\* for apt in new_appointments: the first appointment of the patient whose
\* appointmentHour contains schedule_time
\* apt_patient == client.patient_id and schedule_time in apt_time
LookupMatches(apt, t) ==
    /\ get_patient(apt) = PatientId
    /\ IsSubstring(t, get_appointmentHour(apt))

RECURSIVE FirstAtTimeFrom(_, _, _)
FirstAtTimeFrom(appts, t, i) ==
    IF i > Len(appts) THEN 0
    ELSE IF LookupMatches(appts[i], t) THEN i
    ELSE FirstAtTimeFrom(appts, t, i + 1)

\* PHASE 2, the appointment id of the new appointment
RT_LookupOn(resp) ==
    /\ script = "run_tests"
    /\ pc = "lookup"
    /\ LET new_appointments == get_appointments(token, resp)
            i == IF TruthyList(new_appointments)
                 THEN FirstAtTimeFrom(new_appointments[1], schedule_time, 1) ELSE 0
            id == IF i = 0 THEN appointment_id ELSE new_appointments[1][i].appointmentId
        IN  /\ log' = Sent(token, Req("appointments", "lookup", AuthHeader(token),
                                      new_appointments = Nothing,
                                      TruthyList(new_appointments), FALSE, None, <<>>,
                                      HttpFailure(resp)))
            /\ appointment_id' = id
            /\ IF ~Truthy(id)
               THEN RT_Return(passed, Append(failed, "Could not retrieve appointmentID"))
               ELSE /\ passed' = Append(passed, "Scheduled new appointment")
                    /\ pc' = "search_reschedule"
                    /\ UNCHANGED <<failed, exitCode>>
    /\ UNCHANGED <<findVars, slotVars, callVars, mock, pageVars, environ, entry, result_file>>
    /\ UNCHANGED <<loopVars, script, token, schedule_time, slots, selected, found>>
RT_Lookup ==
    /\ script = "run_tests"
    /\ pc = "lookup"
    /\ \E resp \in IdApptResponses : RT_LookupOn(resp)

\* for slot in reschedule_slots: the first slot whose SlotDateTime differs
\* from schedule_time; 0 when the loop ends without one, -1 when a slot the
\* loop reaches has no SlotDateTime (KeyError)
FirstSlotFrom(ss, t, k) ==
    IF k > Len(ss) THEN 0 ELSE k
LastDifferentSlotFrom(ss, t, k) ==
    LET D == {j \in k..Len(ss) : ss[j].SlotDateTime # t}
    IN  IF D = {} THEN 0 ELSE CHOOSE j \in D : \A i \in D : i <= j
RECURSIVE DifferentSlotFrom(_, _, _)
DifferentSlotFrom(ss, t, k) ==
    IF k > Len(ss) THEN 0
    ELSE IF ss[k].SlotDateTime = NoField THEN -1
    ELSE IF ss[k].SlotDateTime # t THEN k
    ELSE DifferentSlotFrom(ss, t, k + 1)

\* PHASE 3, search and select a different slot
RT_SearchReschedule ==
    /\ script = "run_tests"
    /\ pc = "search_reschedule"
    /\ \E resp \in RunSearchResponses :
        LET reschedule_slots == search_slots(token, resp)
            d == DifferentSlotFrom(reschedule_slots[1], schedule_time, 1)
            reschedule_slot == reschedule_slots[1][IF d = 0 THEN 1 ELSE d]
        IN  /\ log' = Sent(token, Req("search", "reschedule_slots", AuthHeader(token),
                                      reschedule_slots = Nothing,
                                      TruthyList(reschedule_slots), TRUE,
                                      appointment_id, <<>>,
                                      SearchFailure(resp)))
            /\ IF ~TruthyList(reschedule_slots)
               THEN /\ RT_Return(passed, Append(failed, "No available slots for rescheduling"))
                    /\ UNCHANGED <<slots, selected>>
               ELSE /\ passed' = Append(passed, "Found available slots for reschedule")
                    /\ slots' = reschedule_slots[1]
                    /\ IF d = -1
                       THEN /\ Crash                    \* KeyError in the loop
                            /\ UNCHANGED <<failed, selected>>
                       ELSE /\ failed' = IF d = 0
                                         THEN Append(failed, "Could not find a different slot")
                                         ELSE failed
                            /\ IF SlotComplete(reschedule_slot)
                               THEN /\ selected' = Some(reschedule_slot)
                                    /\ pc' = "reschedule"
                                    /\ UNCHANGED exitCode
                               ELSE /\ Crash            \* KeyError
                                    /\ UNCHANGED selected
    /\ UNCHANGED <<findVars, slotVars, callVars, mock, pageVars, environ, entry, result_file>>
    /\ UNCHANGED <<loopVars, script, token, appointment_id, schedule_time, found>>

\* PHASE 3, the reschedule request
RT_Reschedule ==
    /\ script = "run_tests"
    /\ pc = "reschedule"
    /\ \E resp \in ScheduleResponses :
        LET reschedule_result == schedule_appointment(token, resp)
        IN  /\ log' = Sent(token, Req("schedule", "reschedule", AuthHeader(token),
                                      reschedule_result = Nothing,
                                      TruthyBody(reschedule_result), TRUE,
                                      appointment_id, selected[1].SlotDateTime,
                                      ScheduleFailure(resp)))
            /\ IF ~TruthyBody(reschedule_result)
               THEN RT_Return(passed, Append(failed, "Reschedule appointment failed"))
               ELSE IF reschedule_result[1].shape = "list"
               THEN /\ Crash                            \* list has no .get
                    /\ UNCHANGED <<passed, failed>>
               ELSE /\ passed' = Append(passed, "Reschedule moved appointment")
                    /\ pc' = "verify"
                    /\ UNCHANGED <<failed, exitCode>>
    /\ slots' = <<>>
    /\ UNCHANGED <<findVars, slotVars, callVars, mock, pageVars, environ, entry, result_file>>
    /\ UNCHANGED <<loopVars, script, token, appointment_id, schedule_time, selected, found>>

\* only RESCHEDULED marks the original appointment
OldTimeRescheduledOnly(p, old) ==
    IF old = Nothing THEN Append(p, "No appointment at original time")
    ELSE IF get_status(old[1]) = "RESCHEDULED"
         THEN Append(p, "Original appointment marked")
         ELSE p

\* the pass recorded by the check of the old time, if any
OldTimePass(p, old) ==
    IF old = Nothing THEN Append(p, "No appointment at original time")
    ELSE IF get_status(old[1]) \in {"RESCHEDULED", "ANNULLED"}
         THEN Append(p, "Original appointment marked")
         ELSE p

\* PHASE 4 and 5, then main's exit
RT_Verify ==
    /\ script = "run_tests"
    /\ pc = "verify"
    /\ \E resp \in VerifyApptResponses :
        LET appointments == get_appointments(token, resp)
            found_at_new_time ==
                find_appointment_by_time(appointments[1], selected[1].SlotDateTime, PatientId)
            found_at_old_time ==
                find_appointment_by_time(appointments[1], schedule_time, PatientId)
            p1 == IF found_at_new_time # Nothing
                  THEN Append(passed, "Found appointment at new time") ELSE passed
            f1 == IF found_at_new_time # Nothing
                  THEN failed ELSE Append(failed, "Appointment NOT found at new time")
        IN  /\ log' = Sent(token, Req("appointments", "verify", AuthHeader(token),
                                      appointments = Nothing, TruthyList(appointments),
                                      FALSE, None, <<>>,
                                      HttpFailure(resp)))
            /\ IF appointments = Nothing
               THEN /\ RT_Return(passed, Append(failed, "Could not fetch appointments"))
                    /\ UNCHANGED found
               ELSE IF schedule_time = NoField
               THEN /\ Crash                            \* None has no .replace
                    /\ passed' = p1
                    /\ failed' = f1
                    /\ found' = <<found_at_new_time, Nothing>>
               ELSE /\ found' = <<found_at_new_time, found_at_old_time>>
                    /\ RT_Return(OldTimePass(p1, found_at_old_time), f1)
    /\ UNCHANGED <<findVars, slotVars, callVars, mock, pageVars, environ, entry, result_file>>
    /\ UNCHANGED <<loopVars, script, token, appointment_id, schedule_time, slots, selected>>

-----------------------------------------------------------------------------
(* glintt_schedule.py *)

\* result = main(); sys.exit(0 if result else 1)
MainExit(result) == IF result THEN 0 ELSE 1

\* main does not return on a FAIL branch
Main_Continue(result) ==
    IF result THEN pc' = "done" /\ exitCode' = 0
    ELSE UNCHANGED <<pc, exitCode>>

\* main returned: None on a FAIL branch, output at the end
Main_Return(result) ==
    /\ pc' = "done"
    /\ exitCode' = MainExit(result)

\* what the user types at a prompt of select_slot_interactive: q, text that
\* is no number, a number, or Ctrl-C; answer is what follows at the
\* "Continue? (y/n)" prompt of glintt_reschedule
Choice(kind, n, answer) == [kind |-> kind, n |-> n, answer |-> answer]
Choices(ss) ==
    {Choice(k, 0, "n") : k \in {"q", "text", "interrupt"}}
    \cup {Choice("int", n, a) : n \in (-1)..(Len(ss) + 1), a \in {"y", "n", "interrupt"}}

\* display_slots reads slot['SlotDateTime'] of every slot
Displayable(ss) == \A i \in 1..Len(ss) : ss[i].SlotDateTime # NoField

\* Step 1
\* Initialize client
GS_Construct ==
    /\ script = "glintt_schedule"
    /\ pc = "construct"
    /\ c_out' = GlinttTestClient(environ)
    /\ IF c_out'.kind = "raise"
       THEN Main_Return(FALSE)
       ELSE /\ pc' = "authenticate"
            /\ UNCHANGED exitCode
    /\ UNCHANGED <<cpc, c_fn, c_tok, c_slot, c_resp, c_req>>
    /\ UNCHANGED <<findVars, slotVars, mock, pageVars, environ, entry, result_file>>
    /\ UNCHANGED <<loopVars, script, token, log, passed, failed, localVars>>

GS_Authenticate ==
    /\ script = "glintt_schedule"
    /\ pc = "authenticate"
    /\ \E resp \in AuthResponses :
        /\ token' = token_after(token, resp)
        /\ log' = Append(log, Req("token", "authenticate", None, ~authenticate(resp),
                                  authenticate(resp), FALSE, None, <<>>,
                                  HttpFailure(resp)))
        /\ IF authenticate(resp)
           THEN /\ pc' = "search"
                /\ UNCHANGED exitCode
           ELSE Main_Return(FALSE)
    /\ UNCHANGED <<findVars, slotVars, callVars, mock, pageVars, environ, entry, result_file>>
    /\ UNCHANGED <<loopVars, script, passed, failed, localVars>>

\* Step 2, and Step 3 up to the prompt
GS_Search ==
    /\ script = "glintt_schedule"
    /\ pc = "search"
    /\ \E resp \in RunSearchResponses :
        LET found_slots == search_slots(token, resp)
        IN  /\ log' = Sent(token, Req("search", "schedule_slots", AuthHeader(token),
                                      found_slots = Nothing, TruthyList(found_slots),
                                      FALSE, None, <<>>,
                                      SearchFailure(resp)))
            /\ IF ~TruthyList(found_slots)
               THEN /\ Main_Return(FALSE)
                    /\ UNCHANGED <<slots, selected>>
               ELSE /\ slots' = found_slots[1]
                    /\ IF auto_mode
                       THEN /\ selected' = Some(found_slots[1][1])
                            /\ IF found_slots[1][1].SlotDateTime = NoField
                               THEN Crash               \* KeyError in the print
                               ELSE /\ pc' = "schedule"
                                    /\ UNCHANGED exitCode
                       ELSE /\ UNCHANGED selected
                            /\ IF Displayable(found_slots[1])
                               THEN /\ pc' = "prompt"
                                    /\ UNCHANGED exitCode
                               ELSE Crash               \* KeyError in display_slots
    /\ UNCHANGED <<findVars, slotVars, callVars, mock, pageVars, environ, entry, result_file>>
    /\ UNCHANGED <<loopVars, script, token, passed, failed, appointment_id,
                   schedule_time, found>>

\* the loop of select_slot_interactive goes round once more
Again == Pending

\* one pass of the while True of select_slot_interactive of
\* glintt_schedule.py: what it returns, or Again
schedule_select_slot(ss, choice) ==
    IF choice.kind \in {"q", "interrupt"} THEN Returned(Nothing)
    ELSE IF choice.kind = "int" /\ 0 <= choice.n - 1 /\ choice.n - 1 < Len(ss)
    THEN Returned(Some(ss[choice.n]))
    ELSE Again

\* Step 3, one pass of the while True of select_slot_interactive
GS_Prompt ==
    /\ script = "glintt_schedule"
    /\ pc = "prompt"
    /\ \E choice \in Choices(slots) :
        LET r == schedule_select_slot(slots, choice)
        IN  IF r = Again THEN UNCHANGED <<pc, exitCode, selected>>
            ELSE IF r.value = Nothing
            THEN /\ Main_Return(FALSE)
                 /\ UNCHANGED selected
            ELSE /\ selected' = r.value
                 /\ pc' = "schedule"
                 /\ UNCHANGED exitCode
    /\ UNCHANGED <<findVars, slotVars, callVars, mock, pageVars, environ, entry, result_file>>
    /\ UNCHANGED <<loopVars, script, token, log, passed, failed, appointment_id,
                   schedule_time, slots, found>>

\* Step 4, the result file and the exit
\* Save result for reschedule test: the output as json.dump writes it
output(id, slot, result) ==
    [appointmentId |-> IF id = None THEN json_null ELSE json_dumps(id),
     scheduledTime |-> json_dumps(slot.SlotDateTime),
     result |-> result]

GS_Schedule ==
    /\ script = "glintt_schedule"
    /\ pc = "schedule"
    /\ IF ~SlotComplete(selected[1])
       THEN /\ Crash                                    \* KeyError building the body
            /\ UNCHANGED <<log, appointment_id, result_file>>
       ELSE \E resp \in ScheduleResponses :
            LET result == schedule_appointment(token, resp)
            IN  /\ log' = Sent(token, Req("schedule", "schedule", AuthHeader(token),
                                          result = Nothing, TruthyBody(result),
                                          FALSE, PatientId, selected[1].SlotDateTime,
                                          ScheduleFailure(resp)))
                /\ IF ~TruthyBody(result)
                   THEN /\ Main_Return(FALSE)
                        /\ UNCHANGED <<appointment_id, result_file>>
                   ELSE IF result[1].shape = "list"
                   THEN /\ Crash                        \* list has no .get
                        /\ UNCHANGED <<appointment_id, result_file>>
                   ELSE /\ appointment_id' = IF result[1].appointmentID = Absent
                                             THEN None ELSE result[1].appointmentID
                        /\ result_file' = Some(output(appointment_id', selected[1],
                                                       result[1]))
                        /\ Main_Return(TRUE)
    /\ UNCHANGED <<findVars, slotVars, callVars, mock, pageVars, environ, entry>>
    /\ UNCHANGED <<loopVars, script, token, passed, failed, schedule_time, slots,
                   selected, found>>

-----------------------------------------------------------------------------
(* glintt_reschedule.py *)

\* for slot in slots: the first slot that is not at original_time; 0 when
\* the loop ends without one, -1 when the comparison reaches a slot without
\* SlotDateTime (KeyError)
RECURSIVE AutoSlotFrom(_, _, _)
AutoSlotFrom(ss, t, k) ==
    IF k > Len(ss) THEN 0
    ELSE IF t = NoField THEN k
    ELSE IF ss[k].SlotDateTime = NoField THEN -1
    ELSE IF ss[k].SlotDateTime = t THEN AutoSlotFrom(ss, t, k + 1)
    ELSE k

\* where the episode id comes from: --from-file (a file that cannot be read,
\* or its appointmentId and scheduledTime), --episode-id, the environment
EpisodeSources ==
    {[from |-> "unreadable", id |-> None, time |-> NoField]}
    \cup {[from |-> "file", id |-> i, time |-> t] :
            i \in AppointmentIds \cup {None}, t \in RunTimes \cup {NoField}}
    \cup {[from |-> "arg", id |-> i, time |-> NoField] : i \in AppointmentIds}
    \cup {[from |-> "env", id |-> i, time |-> NoField] : i \in AppointmentIds \cup {None}}

\* Determine episode ID
GR_ArgsOn(src) ==
    /\ script = "glintt_reschedule"
    /\ pc = "args"
    /\ appointment_id' = src.id
    /\ schedule_time' = src.time
    /\ IF src.from = "unreadable" \/ ~Truthy(src.id)
       THEN Main_Return(FALSE)
       ELSE /\ pc' = "construct"
            /\ UNCHANGED exitCode
    /\ UNCHANGED <<findVars, slotVars, callVars, mock, pageVars, environ, entry, result_file>>
    /\ UNCHANGED <<loopVars, script, token, log, passed, failed, slots, selected, found>>
GR_Args ==
    /\ script = "glintt_reschedule"
    /\ pc = "args"
    /\ \E src \in EpisodeSources : GR_ArgsOn(src)

\* --from-file with the file glintt_schedule.py wrote
FromFile(f) ==
    [from |-> "file", id |-> json_loads(f.appointmentId, None),
     time |-> json_loads(f.scheduledTime, NoField)]
GR_FromFile ==
    /\ script = "glintt_reschedule"
    /\ pc = "args"
    /\ result_file # NoFile
    /\ GR_ArgsOn(FromFile(result_file[1]))

\* Initialize client
GR_Construct ==
    /\ script = "glintt_reschedule"
    /\ pc = "construct"
    /\ c_out' = GlinttTestClient(environ)
    /\ IF c_out'.kind = "raise"
       THEN Main_Return(FALSE)
       ELSE /\ pc' = "authenticate"
            /\ UNCHANGED exitCode
    /\ UNCHANGED <<cpc, c_fn, c_tok, c_slot, c_resp, c_req>>
    /\ UNCHANGED <<findVars, slotVars, mock, pageVars, environ, entry, result_file>>
    /\ UNCHANGED <<loopVars, script, token, log, passed, failed, localVars>>

\* Step 1
GR_Authenticate ==
    /\ script = "glintt_reschedule"
    /\ pc = "authenticate"
    /\ \E resp \in AuthResponses :
        /\ token' = token_after(token, resp)
        /\ log' = Append(log, Req("token", "authenticate", None, ~authenticate(resp),
                                  authenticate(resp), FALSE, None, <<>>,
                                  HttpFailure(resp)))
        /\ IF authenticate(resp)
           THEN /\ pc' = "search"
                /\ UNCHANGED exitCode
           ELSE Main_Return(FALSE)
    /\ UNCHANGED <<findVars, slotVars, callVars, mock, pageVars, environ, entry, result_file>>
    /\ UNCHANGED <<loopVars, script, passed, failed, localVars>>

\* Step 2, and Step 3 up to the prompt
GR_Search ==
    /\ script = "glintt_reschedule"
    /\ pc = "search"
    /\ \E resp \in RunSearchResponses :
        LET found_slots == search_slots(token, resp)
            d == AutoSlotFrom(found_slots[1], schedule_time, 1)
            selected_slot == found_slots[1][IF d = 0 THEN 1 ELSE d]
        IN  /\ log' = Sent(token, Req("search", "reschedule_slots", AuthHeader(token),
                                      found_slots = Nothing, TruthyList(found_slots),
                                      TRUE, appointment_id, <<>>,
                                      SearchFailure(resp)))
            /\ IF ~TruthyList(found_slots)
               THEN /\ Main_Return(FALSE)
                    /\ UNCHANGED <<slots, selected>>
               ELSE /\ slots' = found_slots[1]
                    /\ IF auto_mode
                       THEN IF d = -1
                            THEN /\ Crash               \* KeyError in the loop
                                 /\ UNCHANGED selected
                            ELSE /\ selected' = Some(selected_slot)
                                 /\ IF selected_slot.SlotDateTime = NoField
                                    THEN Crash          \* KeyError in the print
                                    ELSE /\ pc' = "schedule"
                                         /\ UNCHANGED exitCode
                       ELSE /\ UNCHANGED selected
                            /\ IF Displayable(found_slots[1])
                               THEN /\ pc' = "prompt"
                                    /\ UNCHANGED exitCode
                               ELSE Crash               \* KeyError in display_slots
    /\ UNCHANGED <<findVars, slotVars, callVars, mock, pageVars, environ, entry, result_file>>
    /\ UNCHANGED <<loopVars, script, token, passed, failed, appointment_id,
                   schedule_time, found>>

\* the current slot is returned without the question
SelectWithoutConfirm(ss, exclude_time, choice) ==
    IF choice.kind \in {"q", "interrupt"} THEN Returned(Nothing)
    ELSE IF choice.kind = "int" /\ 0 <= choice.n - 1 /\ choice.n - 1 < Len(ss)
    THEN Returned(Some(ss[choice.n]))
    ELSE Again

\* one pass of the while True of select_slot_interactive of
\* glintt_reschedule.py: what it returns, or Again
select_slot_interactive(ss, exclude_time, choice) ==
    IF choice.kind \in {"q", "interrupt"} THEN Returned(Nothing)
    ELSE IF choice.kind = "int" /\ 0 <= choice.n - 1 /\ choice.n - 1 < Len(ss)
    THEN IF exclude_time # NoField /\ ss[choice.n].SlotDateTime = exclude_time
         THEN IF choice.answer = "interrupt" THEN Returned(Nothing)
              ELSE IF choice.answer # "y" THEN Again    \* continue
              ELSE Returned(Some(ss[choice.n]))
         ELSE Returned(Some(ss[choice.n]))
    ELSE Again

\* Step 3, one pass of the while True of select_slot_interactive
GR_Prompt ==
    /\ script = "glintt_reschedule"
    /\ pc = "prompt"
    /\ \E choice \in Choices(slots) :
        LET r == select_slot_interactive(slots, schedule_time, choice)
        IN  IF r = Again THEN UNCHANGED <<pc, exitCode, selected>>
            ELSE IF r.value = Nothing
            THEN /\ Main_Return(FALSE)
                 /\ UNCHANGED selected
            ELSE /\ selected' = r.value
                 /\ pc' = "schedule"
                 /\ UNCHANGED exitCode
    /\ UNCHANGED <<findVars, slotVars, callVars, mock, pageVars, environ, entry, result_file>>
    /\ UNCHANGED <<loopVars, script, token, log, passed, failed, appointment_id,
                   schedule_time, slots, found>>

\* Step 4, the result file and the exit
GR_Reschedule ==
    /\ script = "glintt_reschedule"
    /\ pc = "schedule"
    /\ IF ~SlotComplete(selected[1])
       THEN /\ Crash                                    \* KeyError building the body
            /\ UNCHANGED log
       ELSE \E resp \in ScheduleResponses :
            LET result == schedule_appointment(token, resp)
            IN  /\ log' = Sent(token, Req("schedule", "reschedule", AuthHeader(token),
                                          result = Nothing, TruthyBody(result),
                                          TRUE, appointment_id, selected[1].SlotDateTime,
                                          ScheduleFailure(resp)))
                /\ IF ~TruthyBody(result)
                   THEN Main_Return(FALSE)
                   ELSE IF result[1].shape = "list"
                   THEN Crash                           \* list has no .get
                   ELSE Main_Return(TRUE)
    /\ UNCHANGED <<findVars, slotVars, callVars, mock, pageVars, environ, entry, result_file>>
    /\ UNCHANGED <<loopVars, script, token, passed, failed, appointment_id,
                   schedule_time, slots, selected, found>>

-----------------------------------------------------------------------------
(* examples/Glintt/test_glintt_get_availability.py *)

\* responses to the example scripts: the transport raised, a status, and for
\* a 200 whether the body is truthy JSON, falsy JSON or no JSON at all
ExampleResponse(ex, st, body) == [raises |-> ex, status |-> st, body |-> body]
ExampleResponses ==
    {ExampleResponse(TRUE, 0, "invalid")}
    \cup {ExampleResponse(FALSE, st, "invalid") : st \in {400, 404, 500}}
    \cup {ExampleResponse(FALSE, 200, b) : b \in {"truthy", "falsy", "invalid"}}

\* get_auth_token returns True after a 200 whose access_token can be sliced
get_auth_token(resp) ==
    /\ ~resp.raises
    /\ resp.status = 200
    /\ resp.shape = "object"
    /\ resp.access_token # Absent

\* self.token after get_auth_token
auth_token_after(tok, resp) ==
    IF ~resp.raises /\ resp.status = 200 /\ resp.shape = "object"
    THEN (IF resp.access_token = Absent THEN None ELSE resp.access_token)
    ELSE tok

\* the request failed: the transport raised, the status is not 200, or
\* response.json() raised
ExampleFailure(resp) == HttpFailure(resp) \/ resp.body = "invalid"

\* a slot search answered: the data returned, None on the failure branches
SearchAnswered(resp) == ~resp.raises /\ resp.status = 200 /\ resp.body # "invalid"

\* len(simplified_bodies)
NumSimplified == 2

\* main returns, the interpreter exits with status 0
Example_Return ==
    /\ pc' = "done"
    /\ exitCode' = 0

GA_Authenticate ==
    /\ script = "get_availability"
    /\ pc = "authenticate"
    /\ \E resp \in AuthResponses :
        /\ token' = auth_token_after(token, resp)
        /\ log' = Append(log, Req("token", "authenticate", None, ~get_auth_token(resp),
                                  get_auth_token(resp), FALSE, None, <<>>,
                                  HttpFailure(resp)))
        /\ IF get_auth_token(resp)
           THEN /\ pc' = "search"
                /\ UNCHANGED exitCode
           ELSE Example_Return
    /\ UNCHANGED <<findVars, slotVars, callVars, mock, pageVars, environ, entry, result_file>>
    /\ UNCHANGED <<loopVars, script, passed, failed, localVars>>

\* search_available_slots and main's if result
GA_Search ==
    /\ script = "get_availability"
    /\ pc = "search"
    /\ \E resp \in ExampleResponses :
        /\ log' = Sent(token, Req("search", "search_available_slots", AuthHeader(token),
                                  ~SearchAnswered(resp),
                                  SearchAnswered(resp) /\ resp.body = "truthy",
                                  FALSE, None, <<>>,
                                  ExampleFailure(resp)))
        /\ IF RequestSent(token) /\ SearchAnswered(resp) /\ resp.body = "truthy"
           THEN /\ Example_Return
                /\ UNCHANGED iter
           ELSE IF ~RequestSent(token)
           THEN /\ Example_Return                       \* no token: both return None
                /\ UNCHANGED iter
           ELSE /\ pc' = "simplified"
                /\ iter' = 1
                /\ UNCHANGED exitCode
    /\ UNCHANGED <<findVars, slotVars, callVars, mock, pageVars, environ, entry, result_file>>
    /\ UNCHANGED <<auto_mode, all_results, unique, script, token, passed, failed,
                   localVars>>

\* try_simplified_slot_search, one pass of the for loop
GA_Simplified ==
    /\ script = "get_availability"
    /\ pc = "simplified"
    /\ \E resp \in ExampleResponses :
        /\ log' = Sent(token, Req("search", "try_simplified_slot_search",
                                  AuthHeader(token), ~SearchAnswered(resp),
                                  SearchAnswered(resp) /\ resp.body = "truthy",
                                  FALSE, None, <<>>,
                                  ExampleFailure(resp)))
        /\ IF SearchAnswered(resp) \/ iter = NumSimplified
           THEN /\ Example_Return
                /\ UNCHANGED iter
           ELSE /\ iter' = iter + 1
                /\ UNCHANGED <<pc, exitCode>>
    /\ UNCHANGED <<findVars, slotVars, callVars, mock, pageVars, environ, entry, result_file>>
    /\ UNCHANGED <<auto_mode, all_results, unique, script, token, passed, failed,
                   localVars>>

-----------------------------------------------------------------------------
(* examples/Glintt/test_glintt_human_resources_search.py *)

\* len(search_variations)
NumVariations == 9

\* the items a search answers with
HRItems == {[ID |-> "H1"]}
HRResponse(ex, st, body, items) ==
    [raises |-> ex, status |-> st, body |-> body, items |-> items]
HRResponses ==
    {HRResponse(TRUE, 0, "invalid", <<>>)}
    \cup {HRResponse(FALSE, 500, "invalid", <<>>)}
    \cup {HRResponse(FALSE, 200, b, <<>>) : b \in {"invalid", "object", "list"}}
    \cup {HRResponse(FALSE, 200, "list", <<x>>) : x \in HRItems}

\* search_human_resources: the data of a 200 response, None otherwise
search_human_resources(tok, resp) ==
    IF ~Truthy(tok) THEN Nothing
    ELSE IF resp.raises THEN Nothing
    ELSE IF resp.status # 200 THEN Nothing
    ELSE IF resp.body = "invalid" THEN Nothing
    ELSE Some(resp)

\* if result and isinstance(result, list) and len(result) > 0:
\*     all_results.extend(result)
extend_results(all, result) ==
    IF result # Nothing /\ result[1].body = "list" /\ Len(result[1].items) > 0
    THEN all \o result[1].items ELSE all

\* keeps the last item of every ID
RECURSIVE LastOfEachFrom(_, _, _, _)
LastOfEachFrom(all, k, seen_ids, unique_results) ==
    IF k > Len(all) THEN unique_results
    ELSE IF Truthy(all[k].ID) /\ \A j \in (k + 1)..Len(all) : all[j].ID # all[k].ID
         THEN LastOfEachFrom(all, k + 1, seen_ids, Append(unique_results, all[k]))
         ELSE LastOfEachFrom(all, k + 1, seen_ids, unique_results)

\* Remove duplicates based on ID
RECURSIVE UniqueFrom(_, _, _, _)
UniqueFrom(all, k, seen_ids, unique_results) ==
    IF k > Len(all) THEN unique_results
    ELSE IF Truthy(all[k].ID) /\ all[k].ID \notin seen_ids
         THEN UniqueFrom(all, k + 1, seen_ids \cup {all[k].ID}, Append(unique_results, all[k]))
         ELSE UniqueFrom(all, k + 1, seen_ids, unique_results)

HR_Authenticate ==
    /\ script = "hr_search"
    /\ pc = "authenticate"
    /\ \E resp \in AuthResponses :
        /\ token' = auth_token_after(token, resp)
        /\ log' = Append(log, Req("token", "authenticate", None, ~get_auth_token(resp),
                                  get_auth_token(resp), FALSE, None, <<>>,
                                  HttpFailure(resp)))
        /\ IF get_auth_token(resp)
           THEN /\ pc' = "variation"
                /\ iter' = 1
                /\ UNCHANGED exitCode
           ELSE /\ Example_Return
                /\ UNCHANGED iter
    /\ UNCHANGED <<findVars, slotVars, callVars, mock, pageVars, environ, entry, result_file>>
    /\ UNCHANGED <<auto_mode, all_results, unique, script, passed, failed, localVars>>

\* search_with_variations, one pass of the for loop; after the last one the
\* duplicates are removed and main ends
HR_Variation ==
    /\ script = "hr_search"
    /\ pc = "variation"
    /\ \E resp \in HRResponses :
        LET result == search_human_resources(token, resp)
            extended == extend_results(all_results, result)
        IN  /\ log' = Sent(token, Req("hr_search", "search_with_variations",
                                      AuthHeader(token), result = Nothing,
                                      extended # all_results, FALSE, None, <<>>,
                                      ExampleFailure(resp)))
            /\ all_results' = extended
            /\ IF iter = NumVariations
               THEN /\ unique' = UniqueFrom(extended, 1, {}, <<>>)
                    /\ Example_Return
                    /\ UNCHANGED iter
               ELSE /\ iter' = iter + 1
                    /\ UNCHANGED <<unique, pc, exitCode>>
    /\ UNCHANGED <<findVars, slotVars, callVars, mock, pageVars, environ, entry, result_file>>
    /\ UNCHANGED <<auto_mode, script, token, passed, failed, localVars>>

-----------------------------------------------------------------------------
(* SpecVariations: search_with_variations on a drawn token and drawn answers
   of the nine searches *)

\* most items all the searches of a call answer together, and most items of
\* one answer
MaxHRTotal == 3
MaxHRList == 2

\* items with an ID, told apart by Name, and items whose ID is empty or
\* missing
NamedItems ==
    {[ID |-> i, Name |-> n] : i \in {"H1", "H2"}, n \in {"a", "b"}}
    \cup {[ID |-> i, Name |-> "a"] : i \in {"", Absent}}

Smaller(a, b) == IF a < b THEN a ELSE b

\* the answers of one search when room items can still be taken
HRAnswers(room) ==
    {HRResponse(TRUE, 0, "invalid", <<>>)}
    \cup {HRResponse(FALSE, 500, "invalid", <<>>)}
    \cup {HRResponse(FALSE, 200, b, <<>>) : b \in {"invalid", "object"}}
    \cup {HRResponse(FALSE, 200, "list", l) :
            l \in SeqsUpTo(NamedItems, Smaller(MaxHRList, room))}

InitVariations ==
    /\ IdleFind
    /\ IdleSlots
    /\ mock = NoMock
    /\ environ = Configured
    /\ entry = NoEntry
    /\ result_file = NoFile
    /\ IdlePages
    /\ cpc = "call"
    /\ c_fn = "search_human_resources"
    /\ c_tok = None
    /\ c_slot = Nothing
    /\ c_resp = Nothing
    /\ c_req = Nothing
    /\ c_out = Pending
    /\ script = "hr_search"
    /\ pc = "variation"
    /\ token \in {"tokenA", None}
    /\ log = <<>>
    /\ passed = <<>>
    /\ failed = <<>>
    /\ exitCode = Running
    /\ appointment_id = None
    /\ schedule_time = NoField
    /\ slots = <<>>
    /\ selected = Nothing
    /\ found = <<Nothing, Nothing>>
    /\ auto_mode = FALSE
    /\ iter = 1
    /\ all_results = <<>>
    /\ unique = <<>>

\* one pass of the for loop; c_resp is the answer of its search, c_out what
\* search_with_variations returns after the last pass
SearchVariation ==
    /\ script = "hr_search"
    /\ pc = "variation"
    /\ \E resp \in HRAnswers(MaxHRTotal - Len(all_results)) :
        /\ c_resp' = Some(resp)
        /\ c_req' = RequestOf(token)
        /\ all_results' = extend_results(all_results,
                                         search_human_resources(token, resp))
    /\ IF iter = NumVariations
       THEN /\ unique' = UniqueFrom(all_results', 1, {}, <<>>)
            /\ c_out' = Returned(unique')
            /\ pc' = "returned"
            /\ UNCHANGED iter
       ELSE /\ iter' = iter + 1
            /\ UNCHANGED <<unique, c_out, pc>>
    /\ UNCHANGED <<cpc, c_fn, c_tok, c_slot>>
    /\ UNCHANGED <<findVars, slotVars, mock, pageVars, environ, entry, result_file>>
    /\ UNCHANGED <<auto_mode, script, token, log, passed, failed, exitCode, localVars>>

NextVariations == SearchVariation

SpecVariations == InitVariations /\ [][NextVariations]_vars

-----------------------------------------------------------------------------
(* examples/Glintt/test_glintt_full_schedule.py and
   test_glintt_full_reschedule.py: authenticate, search, select, schedule *)

FullScripts == {"full_schedule", "full_reschedule"}

\* CURRENT_APPOINTMENT_ID of test_glintt_full_reschedule.py
CurrentAppointmentId == "2722803"

\* search_available_slots: the list of the answer as it came, occupied slots
\* included; None without a token, on a failure and for an empty list
full_search_slots(tok, resp) ==
    IF ~Truthy(tok) THEN Nothing
    ELSE IF resp.raises THEN Nothing
    ELSE IF resp.status # 200 THEN Nothing
    ELSE IF resp.shape # "object" THEN Nothing          \* data.get raises, caught
    ELSE IF resp.ErrorDetails = "errorTruthy" THEN Nothing
    ELSE IF resp.slotsKey # "list" THEN Nothing         \* null, or [] by default
    ELSE IF resp.ExternalSearchSlot = <<>> THEN Nothing
    ELSE Some(resp.ExternalSearchSlot)

\* schedule_appointment / reschedule_appointment once the request body is
\* built: the body of a 200 answer whatever it holds, None otherwise
full_schedule_appointment(tok, resp) ==
    IF ~Truthy(tok) THEN Nothing
    ELSE IF resp.raises THEN Nothing
    ELSE IF resp.status # 200 THEN Nothing
    ELSE IF resp.shape = "other" THEN Nothing           \* response.json() raises
    ELSE Some(resp)

\* select_slot: if selected_slot.get('Occupation', False)
Occupied(slot) == Truthy(slot.Occupation)

\* Step 1
Full_Authenticate(s) ==
    /\ script = s
    /\ pc = "authenticate"
    /\ \E resp \in AuthResponses :
        /\ token' = auth_token_after(token, resp)
        /\ log' = Append(log, Req("token", "authenticate", None, ~get_auth_token(resp),
                                  get_auth_token(resp), FALSE, None, <<>>,
                                  HttpFailure(resp)))
        /\ IF get_auth_token(resp)
           THEN /\ pc' = "search"
                /\ UNCHANGED exitCode
           ELSE Example_Return
    /\ UNCHANGED <<findVars, slotVars, callVars, mock, pageVars, environ, entry, result_file>>
    /\ UNCHANGED <<loopVars, script, passed, failed, localVars>>

\* Step 2, and display_available_slots at the start of select_slot
Full_Search(s) ==
    /\ script = s
    /\ pc = "search"
    /\ \E resp \in RunSearchResponses :
        LET found_slots == full_search_slots(token, resp)
            resched == (s = "full_reschedule")
        IN  /\ log' = Sent(token, Req("search", "search_available_slots",
                                      AuthHeader(token), found_slots = Nothing,
                                      found_slots # Nothing, resched,
                                      IF resched THEN CurrentAppointmentId ELSE None,
                                      <<>>, SearchFailure(resp)))
            /\ IF found_slots = Nothing
               THEN /\ Example_Return
                    /\ UNCHANGED slots
               ELSE /\ slots' = found_slots[1]
                    /\ IF Displayable(found_slots[1])
                       THEN /\ pc' = "prompt"
                            /\ UNCHANGED exitCode
                       ELSE Crash                       \* KeyError: 'SlotDateTime'
    /\ UNCHANGED <<findVars, slotVars, callVars, mock, pageVars, environ, entry, result_file>>
    /\ UNCHANGED <<loopVars, script, token, passed, failed, appointment_id,
                   schedule_time, selected, found>>

\* Step 3, one pass of the while loop of select_slot
Full_Prompt(s) ==
    /\ script = s
    /\ pc = "prompt"
    /\ \E choice \in Choices(slots) :
        IF choice.kind \in {"q", "interrupt"}
        THEN /\ Example_Return
             /\ UNCHANGED selected
        ELSE IF choice.kind = "int" /\ 0 <= choice.n - 1 /\ choice.n - 1 < Len(slots)
        THEN IF Occupied(slots[choice.n])
             THEN UNCHANGED <<pc, exitCode, selected>>  \* continue
             ELSE /\ selected' = Some(slots[choice.n])
                  /\ pc' = "schedule"
                  /\ UNCHANGED exitCode
        ELSE UNCHANGED <<pc, exitCode, selected>>
    /\ UNCHANGED <<findVars, slotVars, callVars, mock, pageVars, environ, entry, result_file>>
    /\ UNCHANGED <<loopVars, script, token, log, passed, failed, appointment_id,
                   schedule_time, slots, found>>

\* Step 4
Full_Schedule(s) ==
    /\ script = s
    /\ pc = "schedule"
    /\ IF ~SlotComplete(selected[1])
       THEN /\ Crash                                    \* KeyError building the body
            /\ UNCHANGED log
       ELSE \E resp \in ScheduleResponses :
            LET result == full_schedule_appointment(token, resp)
                resched == (s = "full_reschedule")
            IN  /\ log' = Sent(token, Req("schedule", "schedule_appointment",
                                          AuthHeader(token), result = Nothing,
                                          TruthyBody(result), resched,
                                          IF resched THEN CurrentAppointmentId
                                          ELSE PatientId,
                                          selected[1].SlotDateTime,
                                          HttpFailure(resp) \/ resp.shape = "other"))
                /\ Example_Return
    /\ UNCHANGED <<findVars, slotVars, callVars, mock, pageVars, environ, entry, result_file>>
    /\ UNCHANGED <<loopVars, script, token, passed, failed, localVars>>

FS_Authenticate == script = "full_schedule" /\ Full_Authenticate("full_schedule")
FS_Search == script = "full_schedule" /\ Full_Search("full_schedule")
FS_Prompt == script = "full_schedule" /\ Full_Prompt("full_schedule")
FS_Schedule == script = "full_schedule" /\ Full_Schedule("full_schedule")

FR_Authenticate == script = "full_reschedule" /\ Full_Authenticate("full_reschedule")
FR_Search == script = "full_reschedule" /\ Full_Search("full_reschedule")
FR_Prompt == script = "full_reschedule" /\ Full_Prompt("full_reschedule")
FR_Reschedule == script = "full_reschedule" /\ Full_Schedule("full_reschedule")

-----------------------------------------------------------------------------
(* examples/Glintt/test_glintt_appointment.py: get_todays_appointments;
   SpecPages calls it on a drawn token and drawn answers *)

\* most pages a call is followed through
MaxPages == 3

\* take = 100
take == 100

\* the records of a page: told apart by the skip of the request and their
\* place in the page
PageRecords(sk, n) == [i \in 1..n |-> <<sk, i>>]

\* lengths of the lists a page is answered with
PageLengths == {0, 1, 50, take - 1, take, take + 1, 2 * take}

\* answers to GET /Appointment?skip=..&take=..: the transport raises, a
\* status other than 200, a 200 with a body that is no list, a 200 with a list
PageResponse(ex, st, sh, l) == [raises |-> ex, status |-> st, shape |-> sh, list |-> l]
PageResponses(sk) ==
    {PageResponse(TRUE, 0, "other", <<>>)}
    \cup {PageResponse(FALSE, st, "other", <<>>) : st \in {400, 404, 500}}
    \cup {PageResponse(FALSE, 200, "other", <<>>)}
    \cup {PageResponse(FALSE, 200, "list", PageRecords(sk, n)) : n \in PageLengths}

\* the request got a list
PageAnswered(resp) == ~resp.raises /\ resp.status = 200 /\ resp.shape = "list"

\* the loop ends on any page that is not empty
LastPageWhenNotEmpty(data) == Len(data) > 0

\* if len(data) < take: break
LastPage(data) == Len(data) < take

InitPages ==
    /\ IdleFind
    /\ IdleSlots
    /\ IdleCall
    /\ mock = NoMock
    /\ environ = Configured
    /\ entry = NoEntry
    /\ result_file = NoFile
    /\ IdlePages
    /\ script = "appointment"
    /\ pc = "page"
    /\ token \in CallTokens
    /\ log = <<>>
    /\ passed = <<>>
    /\ failed = <<>>
    /\ exitCode = Running
    /\ appointment_id = None
    /\ schedule_time = NoField
    /\ slots = <<>>
    /\ selected = Nothing
    /\ found = <<Nothing, Nothing>>
    /\ auto_mode = FALSE
    /\ iter = 0
    /\ all_results = <<>>
    /\ unique = <<>>

\* if not self.token: return None
NoTokenNoPages ==
    /\ script = "appointment"
    /\ pc = "page"
    /\ ~Truthy(token)
    /\ c_out' = Returned(Nothing)
    /\ pc' = "returned"
    /\ UNCHANGED <<cpc, c_fn, c_tok, c_slot, c_resp, c_req>>
    /\ UNCHANGED <<findVars, slotVars, mock, pageVars, environ, entry, result_file>>
    /\ UNCHANGED <<loopVars, script, token, log, passed, failed, exitCode, localVars>>

\* one pass of the while True
GetPage ==
    /\ script = "appointment"
    /\ pc = "page"
    /\ Truthy(token)
    /\ Len(page_log) < MaxPages
    /\ \E resp \in PageResponses(skip) :
        IF ~PageAnswered(resp)
        THEN /\ page_log' = Append(page_log, [skip |-> skip, take |-> take,
                                               data |-> Nothing])
             /\ c_out' = Returned(Nothing)
             /\ pc' = "returned"
             /\ UNCHANGED <<skip, all_appointments>>
        ELSE /\ page_log' = Append(page_log, [skip |-> skip, take |-> take,
                                               data |-> Some(resp.list)])
             /\ all_appointments' = all_appointments \o resp.list
             /\ IF LastPage(resp.list)
                THEN /\ c_out' = Returned(Some(all_appointments'))
                     /\ pc' = "returned"
                     /\ UNCHANGED skip
                ELSE /\ skip' = skip + take
                     /\ UNCHANGED <<pc, c_out>>
    /\ UNCHANGED <<cpc, c_fn, c_tok, c_slot, c_resp, c_req>>
    /\ UNCHANGED <<findVars, slotVars, mock, environ, entry, result_file>>
    /\ UNCHANGED <<loopVars, script, token, log, passed, failed, exitCode, localVars>>

NextPages == NoTokenNoPages \/ GetPage

SpecPages == InitPages /\ [][NextPages]_vars

-----------------------------------------------------------------------------
(* Spec: one run of a script *)

Scripts == {"run_tests", "glintt_schedule", "glintt_reschedule", "get_availability",
            "hr_search"}

Init ==
    /\ IdleFind
    /\ IdleSlots
    /\ IdleCall
    /\ mock = NoMock
    /\ environ = Configured
    /\ entry = NoEntry
    /\ result_file = NoFile
    /\ IdlePages
    /\ script \in Scripts
    /\ pc = IF script = "glintt_reschedule" THEN "args" ELSE "authenticate"
    /\ token = None
    /\ log = <<>>
    /\ passed = <<>>
    /\ failed = <<>>
    /\ exitCode = Running
    /\ appointment_id = None
    /\ schedule_time = NoField
    /\ slots = <<>>
    /\ selected = Nothing
    /\ found = <<Nothing, Nothing>>
    /\ auto_mode \in (IF script \in {"glintt_schedule", "glintt_reschedule"}
                       THEN BOOLEAN ELSE {FALSE})
    /\ iter = 0
    /\ all_results = <<>>
    /\ unique = <<>>

RunTests ==
    \/ RT_Authenticate
    \/ RT_GetExisting
    \/ RT_SearchSchedule
    \/ RT_Schedule
    \/ RT_Lookup
    \/ RT_SearchReschedule
    \/ RT_Reschedule
    \/ RT_Verify

GlinttSchedule ==
    \/ GS_Authenticate
    \/ GS_Search
    \/ GS_Prompt
    \/ GS_Schedule

GlinttReschedule ==
    \/ GR_Args
    \/ GR_Construct
    \/ GR_Authenticate
    \/ GR_Search
    \/ GR_Prompt
    \/ GR_Reschedule

GetAvailability ==
    \/ GA_Authenticate
    \/ GA_Search
    \/ GA_Simplified

HumanResourcesSearch ==
    \/ HR_Authenticate
    \/ HR_Variation

Next ==
    \/ RunTests
    \/ GlinttSchedule
    \/ GlinttReschedule
    \/ GetAvailability
    \/ HumanResourcesSearch

Spec == Init /\ [][Next]_vars

-----------------------------------------------------------------------------
(* SpecSchedulers: one run of a script that sends ExternalScheduleAppointment *)

Schedulers == {"run_tests", "glintt_schedule", "glintt_reschedule"} \cup FullScripts

InitSchedulers ==
    /\ IdleFind
    /\ IdleSlots
    /\ IdleCall
    /\ mock = NoMock
    /\ environ = Configured
    /\ entry = NoEntry
    /\ result_file = NoFile
    /\ IdlePages
    /\ script \in Schedulers
    /\ pc = IF script = "glintt_reschedule" THEN "args" ELSE "authenticate"
    /\ token = None
    /\ log = <<>>
    /\ passed = <<>>
    /\ failed = <<>>
    /\ exitCode = Running
    /\ appointment_id = None
    /\ schedule_time = NoField
    /\ slots = <<>>
    /\ selected = Nothing
    /\ found = <<Nothing, Nothing>>
    /\ auto_mode \in (IF script \in {"glintt_schedule", "glintt_reschedule"}
                       THEN BOOLEAN ELSE {FALSE})
    /\ iter = 0
    /\ all_results = <<>>
    /\ unique = <<>>

FullSchedule ==
    \/ FS_Authenticate
    \/ FS_Search
    \/ FS_Prompt
    \/ FS_Schedule

FullReschedule ==
    \/ FR_Authenticate
    \/ FR_Search
    \/ FR_Prompt
    \/ FR_Reschedule

NextSchedulers ==
    \/ RunTests
    \/ GlinttSchedule
    \/ GlinttReschedule
    \/ FullSchedule
    \/ FullReschedule

SpecSchedulers == InitSchedulers /\ [][NextSchedulers]_vars

-----------------------------------------------------------------------------
(* SpecSelect: select_slot_interactive of glintt_schedule.py and of
   glintt_reschedule.py on a drawn list, original time and typed entries *)

SelectScripts == {"glintt_schedule", "glintt_reschedule"}

\* the lists select_slot_interactive is called with: not empty, every slot
\* with its SlotDateTime
SelectSlots == {Slot(t, JFalse, TRUE) : t \in RunTimes}
SelectLists == SeqsUpTo(SelectSlots, MaxRunSlots) \ {<<>>}

InitSelect ==
    /\ IdleFind
    /\ IdleSlots
    /\ IdleCall
    /\ mock = NoMock
    /\ environ = Configured
    /\ entry = NoEntry
    /\ result_file = NoFile
    /\ IdlePages
    /\ script \in SelectScripts
    /\ pc = "prompt"
    /\ token = "tokenA"
    /\ log = <<>>
    /\ passed = <<>>
    /\ failed = <<>>
    /\ exitCode = Running
    /\ appointment_id = None
    /\ schedule_time \in (IF script = "glintt_reschedule"
                          THEN RunTimes \cup {NoField} ELSE {NoField})
    /\ slots \in SelectLists
    /\ selected = Nothing
    /\ found = <<Nothing, Nothing>>
    /\ auto_mode = FALSE
    /\ iter = 0
    /\ all_results = <<>>
    /\ unique = <<>>

\* one entry typed at the prompt of glintt_schedule.py
SelectSchedule ==
    /\ script = "glintt_schedule"
    /\ pc = "prompt"
    /\ \E choice \in Choices(slots) :
        /\ entry' = choice
        /\ c_out' = schedule_select_slot(slots, choice)
    /\ pc' = IF c_out' = Again THEN "prompt" ELSE "returned"
    /\ UNCHANGED <<cpc, c_fn, c_tok, c_slot, c_resp, c_req>>
    /\ UNCHANGED <<findVars, slotVars, mock, pageVars, environ, result_file>>
    /\ UNCHANGED <<loopVars, script, token, log, passed, failed, exitCode, localVars>>

\* one entry typed at the prompt of glintt_reschedule.py
SelectReschedule ==
    /\ script = "glintt_reschedule"
    /\ pc = "prompt"
    /\ \E choice \in Choices(slots) :
        /\ entry' = choice
        /\ c_out' = select_slot_interactive(slots, schedule_time, choice)
    /\ pc' = IF c_out' = Again THEN "prompt" ELSE "returned"
    /\ UNCHANGED <<cpc, c_fn, c_tok, c_slot, c_resp, c_req>>
    /\ UNCHANGED <<findVars, slotVars, mock, pageVars, environ, result_file>>
    /\ UNCHANGED <<loopVars, script, token, log, passed, failed, exitCode, localVars>>

NextSelect == SelectSchedule \/ SelectReschedule

SpecSelect == InitSelect /\ [][NextSelect]_vars

-----------------------------------------------------------------------------
(* SpecRoundTrip: a run of glintt_schedule.py, then a run of
   glintt_reschedule.py --from-file on the file the first run wrote; the log
   is the remote's and goes on over both runs *)

InitRoundTrip ==
    /\ IdleFind
    /\ IdleSlots
    /\ IdleCall
    /\ mock = NoMock
    /\ environ = Configured
    /\ entry = NoEntry
    /\ result_file = NoFile
    /\ IdlePages
    /\ script = "glintt_schedule"
    /\ pc = "authenticate"
    /\ token = None
    /\ log = <<>>
    /\ passed = <<>>
    /\ failed = <<>>
    /\ exitCode = Running
    /\ appointment_id = None
    /\ schedule_time = NoField
    /\ slots = <<>>
    /\ selected = Nothing
    /\ found = <<Nothing, Nothing>>
    /\ auto_mode \in BOOLEAN
    /\ iter = 0
    /\ all_results = <<>>
    /\ unique = <<>>

\* python glintt_reschedule.py --from-file <the file> [--auto]: a new process
StartReschedule ==
    /\ script = "glintt_schedule"
    /\ pc = "done"
    /\ result_file # NoFile
    /\ script' = "glintt_reschedule"
    /\ pc' = "args"
    /\ token' = None
    /\ exitCode' = Running
    /\ appointment_id' = None
    /\ schedule_time' = NoField
    /\ slots' = <<>>
    /\ selected' = Nothing
    /\ auto_mode' \in BOOLEAN
    /\ UNCHANGED <<findVars, slotVars, callVars, mock, pageVars, environ, entry, result_file>>
    /\ UNCHANGED <<iter, all_results, unique, log, passed, failed, found>>

NextRoundTrip ==
    \/ GlinttSchedule
    \/ StartReschedule
    \/ GR_FromFile
    \/ GR_Construct
    \/ GR_Authenticate
    \/ GR_Search

SpecRoundTrip == InitRoundTrip /\ [][NextRoundTrip]_vars

-----------------------------------------------------------------------------
(* SpecConfig: the three scripts of the test suite started in a drawn
   environment, up to the construction of the client *)

ConfigScripts == {"run_tests", "glintt_schedule", "glintt_reschedule"}

InitConfig ==
    /\ IdleFind
    /\ IdleSlots
    /\ IdleCall
    /\ mock = NoMock
    /\ environ \in Environments
    /\ entry = NoEntry
    /\ result_file = NoFile
    /\ IdlePages
    /\ script \in ConfigScripts
    /\ pc = IF script = "glintt_reschedule" THEN "args" ELSE "construct"
    /\ token = None
    /\ log = <<>>
    /\ passed = <<>>
    /\ failed = <<>>
    /\ exitCode = Running
    /\ appointment_id = None
    /\ schedule_time = NoField
    /\ slots = <<>>
    /\ selected = Nothing
    /\ found = <<Nothing, Nothing>>
    /\ auto_mode \in (IF script \in {"glintt_schedule", "glintt_reschedule"}
                       THEN BOOLEAN ELSE {FALSE})
    /\ iter = 0
    /\ all_results = <<>>
    /\ unique = <<>>

NextConfig ==
    \/ RT_Construct
    \/ GS_Construct
    \/ GR_Args
    \/ GR_Construct

SpecConfig == InitConfig /\ [][NextConfig]_vars

-----------------------------------------------------------------------------
(* SpecMock: phases 1 and 2 of run_tests against a transport whose answers
   are fixed before the run starts *)

MaxMockAppts == 2
MaxMockSlots == 2

\* the answers of the transport, one for each request of phases 1 and 2
Mock(au, ex, se, sc, lo) ==
    [auth |-> au, existing |-> ex, search |-> se, schedule |-> sc, lookup |-> lo]

TokenAnswer == AuthResponse(FALSE, 200, "object", "tokenA")
ListAnswer(l) == ApptResponse(FALSE, 200, "list", l)
SlotsAnswer(sl) == SearchResponse(FALSE, 200, "object", Absent, "list", sl)
ScheduledAnswer(id) == ScheduleResponse(FALSE, 200, "object", Absent, id)

\* what the first GET /Appointment may list
ExistingAppointments ==
    {Appointment(p, <<"1">>, i, "SCHEDULED") :
        p \in {PatientId, "999999"}, i \in AppointmentIds \cup {None}}
\* what GET /Appointment may list after the schedule request
NewAppointments ==
    {Appointment(PatientId, h, i, "SCHEDULED") :
        h \in RunTimes, i \in AppointmentIds \cup {None}}
    \cup {Appointment("999999", <<"1">>, "A2", "SCHEDULED")}
MockSlots == {Slot(t, occ, TRUE) : t \in RunTimes, occ \in {JTrue, JFalse}}

\* any first GET, a slot search over few slots, a schedule request that is
\* accepted or refused, and the new appointment listed
FindOrCreateMocks ==
    {Mock(TokenAnswer, ex, se, sc, ListAnswer(<<Appointment(PatientId, <<"2">>, "A2", "SCHEDULED")>>)) :
        ex \in {ApptResponse(FALSE, 500, "other", <<>>)}
               \cup {ListAnswer(l) : l \in SeqsUpTo(ExistingAppointments, MaxMockAppts)},
        se \in {SearchResponse(FALSE, 500, "other", Absent, Absent, <<>>)}
               \cup {SlotsAnswer(sl) :
                        sl \in SeqsUpTo({Slot(<<"2">>, JFalse, TRUE), Slot(<<"1">>, JTrue, TRUE),
                                         Slot(<<"1">>, JFalse, TRUE)}, MaxMockSlots)},
        sc \in {ScheduledAnswer("A1"), ScheduleResponse(FALSE, 500, "other", Absent, Absent)}}

\* no appointment of the patient at first, two slots of which one is occupied,
\* a schedule request that is accepted, and any list of appointments after it
EndToEndMocks ==
    {Mock(TokenAnswer, ex, SlotsAnswer(<<s1, s2>>), ScheduledAnswer(id), ListAnswer(l)) :
        ex \in {ListAnswer(<<>>),
                ListAnswer(<<Appointment("999999", <<"1">>, "A2", "SCHEDULED")>>)},
        s1 \in MockSlots, s2 \in MockSlots, id \in AppointmentIds,
        l \in SeqsUpTo(NewAppointments, MaxMockAppts)}

Mocks == FindOrCreateMocks \cup EndToEndMocks

InitMock ==
    /\ IdleFind
    /\ IdleSlots
    /\ IdleCall
    /\ mock \in Mocks
    /\ environ = Configured
    /\ entry = NoEntry
    /\ result_file = NoFile
    /\ IdlePages
    /\ script = "run_tests"
    /\ pc = "authenticate"
    /\ token = None
    /\ log = <<>>
    /\ passed = <<>>
    /\ failed = <<>>
    /\ exitCode = Running
    /\ appointment_id = None
    /\ schedule_time = NoField
    /\ slots = <<>>
    /\ selected = Nothing
    /\ found = <<Nothing, Nothing>>
    /\ auto_mode = FALSE
    /\ iter = 0
    /\ all_results = <<>>
    /\ unique = <<>>

M_Authenticate == mock # NoMock /\ RT_AuthenticateOn(mock.auth)
M_GetExisting == mock # NoMock /\ RT_GetExistingOn(mock.existing)
M_SearchSchedule == mock # NoMock /\ RT_SearchScheduleOn(mock.search)
M_Schedule == mock # NoMock /\ RT_ScheduleOn(mock.schedule)
M_Lookup == mock # NoMock /\ RT_LookupOn(mock.lookup)

NextMock == M_Authenticate \/ M_GetExisting \/ M_SearchSchedule \/ M_Schedule \/ M_Lookup

SpecMock == InitMock /\ [][NextMock]_vars

-----------------------------------------------------------------------------
(* Properties of a script run *)

Exited == exitCode # Running
Entries == 1..Len(log)

\* C3: when run_tests has exited, the exit code is 0 if and only if no
\* failure was recorded, and 1 otherwise.
C3_ExitZeroIffNoFailure ==
    (script = "run_tests" /\ Exited) =>
        /\ exitCode \in {0, 1}
        /\ exitCode = 0 <=> failed = <<>>

\* C4: in run_tests, glintt_schedule and glintt_reschedule every failed
\* remote call is turned into a None/False return, and no run in which a
\* remote call failed exits with code 0.
C4_FailedCallAborts ==
    script \in {"run_tests", "glintt_schedule", "glintt_reschedule"} =>
        /\ \A i \in Entries : log[i].remote => log[i].failed
        /\ exitCode = 0 => \A i \in Entries : ~log[i].remote

\* the place of a call site in the order of run_tests
SiteRank(site) ==
    CASE site = "authenticate" -> 1
      [] site = "existing" -> 2
      [] site = "schedule_slots" -> 3
      [] site = "schedule" -> 4
      [] site = "lookup" -> 5
      [] site = "reschedule_slots" -> 6
      [] site = "reschedule" -> 7
      [] site = "verify" -> 8

\* C5: in run_tests the requests follow the order authenticate, find-or-create
\* (existing, slot search, schedule, lookup), reschedule (slot search,
\* request), verify; every authenticated request comes after an authenticate
\* that returned True, the reschedule search and request carry an appointment
\* ID obtained from an earlier GET /Appointment, and the verification GET
\* comes after a reschedule request that succeeded.
C5_FixedOrder ==
    script = "run_tests" =>
        /\ \A i, j \in Entries : i < j => SiteRank(log[i].site) < SiteRank(log[j].site)
        /\ \A j \in Entries : log[j].ep # "token" =>
                \E i \in 1..(j - 1) : log[i].ep = "token" /\ log[i].ok
        /\ \A j \in Entries : log[j].site \in {"reschedule_slots", "reschedule"} =>
                /\ Truthy(log[j].episode)
                /\ \E i \in 1..(j - 1) : log[i].site \in {"existing", "lookup"} /\ log[i].ok
        /\ \A j \in Entries : log[j].site = "verify" =>
                \E i \in 1..(j - 1) : log[i].site = "reschedule" /\ log[i].ok

\* a run through all eight call sites
C5_Witness ==
    /\ script = "run_tests"
    /\ pc = "done"
    /\ Len(log) = 8
    /\ log[8].site = "verify"

\* C6 as stated: every run of run_tests that exits 0 has scheduled a new
\* appointment, then rescheduled it to a different slot, then verified.
C6_ScheduleRescheduleVerify ==
    (script = "run_tests" /\ exitCode = 0) =>
        \E i, j, k \in Entries :
            /\ i < j /\ j < k
            /\ log[i].site = "schedule" /\ log[i].ok
            /\ log[j].site = "reschedule" /\ log[j].ok
            /\ log[j].time # log[i].time
            /\ log[k].site = "verify" /\ log[k].ok

\* the appointment ID came from the first GET /Appointment and nothing was
\* scheduled
UsedExisting(j) ==
    /\ \E i \in 1..(j - 1) : log[i].site = "existing" /\ log[i].ok
    /\ \A i \in Entries : log[i].site # "schedule"

\* a new appointment was scheduled at schedule_time and its ID looked up
ScheduledNew(j) ==
    \E i, l \in 1..(j - 1) :
        /\ i < l
        /\ log[i].site = "schedule" /\ log[i].ok /\ log[i].time = schedule_time
        /\ log[l].site = "lookup" /\ log[l].ok

\* C6, amended: every run of run_tests that exits 0 has obtained an
\* appointment ID, from an existing appointment of the patient or else by
\* scheduling a new one and looking it up, has then sent a reschedule request
\* that succeeded, for that ID and to a slot whose SlotDateTime is not the
\* appointment's time as written, and has then found an appointment of the
\* patient at the new time in a GET /Appointment.
C6_FindOrCreateRescheduleVerify ==
    (script = "run_tests" /\ exitCode = 0) =>
        \E j, k \in Entries :
            /\ j < k
            /\ UsedExisting(j) \/ ScheduledNew(j)
            /\ log[j].site = "reschedule" /\ log[j].ok
            /\ Truthy(appointment_id) /\ log[j].episode = appointment_id
            /\ schedule_time # NoField
            /\ log[j].time # schedule_time
            /\ log[k].site = "verify" /\ ~log[k].failed
            /\ found[1] # Nothing
            /\ get_patient(found[1][1]) = PatientId
            /\ Normalise(get_appointmentHour(found[1][1])) = Normalise(log[j].time)

\* a run that exits 0 on an existing appointment, moved to a slot written
\* differently for the same second
C6_Witness ==
    /\ script = "run_tests"
    /\ exitCode = 0
    /\ \A i \in Entries : log[i].site # "schedule"
    /\ schedule_time = <<"1">>
    /\ selected = Some(Slot(<<"1", ".", "5", "Z">>, JFalse, TRUE))

\* C7: the auth endpoint is called at most once; once authenticate has run
\* the stored token does not change; every other request carries the
\* stored token.
C7_OneToken ==
    [][ /\ Cardinality({i \in 1..Len(log') : log'[i].ep = "token"}) <= 1
        /\ (\E i \in Entries : log[i].ep = "token") => token' = token
        /\ \A i \in 1..Len(log') : log'[i].ep # "token" => log'[i].tok = token' ]_vars

\* nine searches with the second token
C7_Witness ==
    /\ script = "hr_search"
    /\ pc = "done"
    /\ token = "tokenB"
    /\ Len(log) = 1 + NumVariations
    /\ \A i \in 2..Len(log) : log[i].tok = "tokenB"

\* C8 as stated: after a request to an endpoint has failed the run sends no
\* further request to that endpoint, and no results are returned when a
\* request failed.
C8_NoRetryNoPartial ==
    \A i \in Entries : log[i].failed =>
        /\ \A j \in Entries : i < j => log[j].ep # log[i].ep
        /\ unique = <<>>

\* C8, amended: glintt_schedule and glintt_reschedule send no request after a
\* failed one; run_tests sends requests after a failed one only when that is
\* the first GET /Appointment; test_glintt_get_availability sends the slot
\* search again, at most twice, when the search before has failed or
\* answered nothing, and not after a simplified search was answered;
\* search_with_variations sends all nine searches whichever of them fail
\* and returns results exactly when one search had any.
C8_RetryOnlyWhereWritten ==
    /\ script \in {"glintt_schedule", "glintt_reschedule"} =>
            \A i \in Entries : log[i].failed => i = Len(log)
    /\ script = "run_tests" =>
            \A i \in Entries : log[i].failed => (i = Len(log) \/ log[i].site = "existing")
    /\ script = "get_availability" =>
            /\ Len(log) <= 2 + NumSimplified
            /\ \A i, j \in Entries : (i < j /\ log[i].ep = "search") =>
                    /\ ~log[i].ok
                    /\ log[i].site = "try_simplified_slot_search" => log[i].failed
    /\ (script = "hr_search" /\ pc = "done" /\ Len(log) > 1) =>
            /\ Len(log) = 1 + NumVariations
            /\ unique # <<>> <=> \E i \in Entries : log[i].ep = "hr_search" /\ log[i].ok

\* nine searches of which one failed and a later one had a result
C8_Witness ==
    /\ script = "hr_search"
    /\ pc = "done"
    /\ Len(log) = 1 + NumVariations
    /\ \E i, j \in Entries : i < j /\ log[i].failed /\ log[j].ok /\ log[j].ep = "hr_search"
    /\ unique # <<>>

-----------------------------------------------------------------------------
(* Properties of phases 1 and 2 of run_tests against a fixed transport *)

\* the slots the mocked slot search answers with that are not occupied
FreeMockSlots ==
    {k \in 1..Len(mock.search.ExternalSearchSlot) :
        ~Truthy(mock.search.ExternalSearchSlot[k].Occupation)}
FreeMockSlot == mock.search.ExternalSearchSlot[CHOOSE k \in FreeMockSlots : TRUE]

\* the end-to-end scenario: a token, two slots of which exactly one is
\* occupied, a schedule request answered with an appointmentID, and then a
\* GET that lists an appointment of the patient, with its ID, at the time
\* of the slot that is not occupied
EndToEndScenario ==
    /\ mock # NoMock
    /\ authenticate(mock.auth) /\ Truthy(mock.auth.access_token)
    /\ ~SearchFailure(mock.search) /\ mock.search.slotsKey = "list"
    /\ Len(mock.search.ExternalSearchSlot) = 2
    /\ Cardinality(FreeMockSlots) = 1
    /\ ~ScheduleFailure(mock.schedule) /\ mock.schedule.shape = "object"
    /\ Truthy(mock.schedule.appointmentID)
    /\ ~HttpFailure(mock.lookup) /\ mock.lookup.shape = "list"
    /\ \E i \in 1..Len(mock.lookup.list) :
            /\ Qualifies(mock.lookup.list[i], FreeMockSlot.SlotDateTime, PatientId)
            /\ Truthy(mock.lookup.list[i].appointmentId)

ScheduleEntries == {j \in Entries : log[j].site = "schedule"}
LookupEntries == {j \in Entries : log[j].site = "lookup"}

\* C11: in the end-to-end scenario, once the schedule request has been
\* answered there is exactly one schedule request in the log and it is for
\* the slot that is not occupied, and once the GET that follows has been
\* answered the lookup has taken the ID of a listed appointment of the
\* patient at the scheduled time and the run goes on.
C11_EndToEnd ==
    EndToEndScenario =>
        /\ ScheduleEntries # {} =>
                /\ Cardinality(ScheduleEntries) = 1
                /\ \A j \in ScheduleEntries :
                        /\ log[j].ep = "schedule"
                        /\ ~log[j].reschedule
                        /\ log[j].time = FreeMockSlot.SlotDateTime
        /\ LookupEntries # {} =>
                /\ pc = "search_reschedule"
                /\ failed = <<>>
                /\ \E i \in 1..Len(mock.lookup.list) :
                        /\ Qualifies(mock.lookup.list[i], FreeMockSlot.SlotDateTime, PatientId)
                        /\ appointment_id = mock.lookup.list[i].appointmentId

\* the lookup of the appointment ID has run on a list
LookedUp == \E j \in Entries : log[j].site = "lookup" /\ ~log[j].failed

\* C12: the lookup of the appointment ID and the verification lookup accept
\* the same appointments: whatever list the GET after the schedule request
\* answers, an appointment of it passes the test of the ID lookup exactly if
\* it passes the test of find_appointment_by_time for the same time and
\* patient.
C12_LookupsAgree ==
    (mock # NoMock /\ LookedUp) =>
        \A i \in 1..Len(mock.lookup.list) :
            LookupMatches(mock.lookup.list[i], schedule_time)
                <=> Matches(mock.lookup.list[i], schedule_time, PatientId)

-----------------------------------------------------------------------------
(* Properties of a run of run_tests *)

\* C13 as stated: once run_tests has recorded a failure the run is over, and
\* no request is sent in a state where a failure is recorded.
C13_FailureEndsRun ==
    [][script = "run_tests" =>
        /\ failed' # <<>> => pc' \in {"done", "crashed"}
        /\ failed # <<>> => log' = log]_vars

\* C13: a recorded failure ends run_tests at once, except the failure to find
\* a different slot: with that failure alone recorded the run goes on with the
\* first slot, whose time is the original one, and the only requests sent
\* after a recorded failure are that reschedule request and the verification
\* GET after it; the run then exits 1.
C13_FailureEndsRunButSameSlot ==
    [][script = "run_tests" =>
        /\ (failed' # <<>> /\ pc' \notin {"done", "crashed"}) =>
                /\ failed' = <<"Could not find a different slot">>
                /\ pc' \in {"reschedule", "verify"}
                /\ selected'[1].SlotDateTime = schedule_time'
        /\ (failed # <<>> /\ log' # log) =>
                /\ failed[1] = "Could not find a different slot"
                /\ log' = Append(log, log'[Len(log')])
                /\ log'[Len(log')].site \in {"reschedule", "verify"}
        /\ (failed' # <<>> /\ pc' \in {"done", "crashed"}) => exitCode' = 1]_vars

\* no different slot was found, and both the reschedule request and the
\* verification GET were sent all the same
C13_Witness ==
    /\ script = "run_tests"
    /\ pc = "done"
    /\ failed = <<"Could not find a different slot">>
    /\ exitCode = 1
    /\ \E j \in Entries : log[j].site = "reschedule" /\ log[j].time = schedule_time
    /\ \E j \in Entries : log[j].site = "verify"

\* the slots of the list that are not at the original time
DifferentSlots == {k \in 1..Len(slots) : slots[k].SlotDateTime # schedule_time}

\* C14: run_tests reschedules to the first slot of the list search_slots
\* returned whose SlotDateTime is not the original time, and records a
\* failure when there is none; the reschedule request is for the selected
\* slot, and a run that exits 0 has sent it for another SlotDateTime than the
\* original time.
C14_FirstDifferentSlot ==
    script = "run_tests" =>
        /\ pc = "reschedule" =>
                IF DifferentSlots # {}
                THEN /\ \E k \in DifferentSlots :
                            /\ \A i \in DifferentSlots : k <= i
                            /\ selected = Some(slots[k])
                     /\ failed = <<>>
                ELSE /\ selected = Some(slots[1])
                     /\ failed = <<"Could not find a different slot">>
        /\ \A j \in Entries :
                log[j].site = "reschedule" => log[j].time = selected[1].SlotDateTime
        /\ (Exited /\ exitCode = 0) =>
                \E j \in Entries :
                    /\ log[j].site = "reschedule"
                    /\ log[j].time # schedule_time

\* the first slot is at the original time, the second is not
C14_Witness ==
    /\ script = "run_tests"
    /\ pc = "reschedule"
    /\ Len(slots) = 2
    /\ slots[1].SlotDateTime = schedule_time
    /\ selected = Some(slots[2])
    /\ failed = <<>>

VerifyEntries == {j \in Entries : log[j].site = "verify"}

\* C15: a run of run_tests that exits 0 has sent the verification GET, got a
\* list, and found in it, by find_appointment_by_time, an appointment of the
\* patient at the time of the slot it rescheduled to; a verification GET
\* that fails, or a list without such an appointment, leaves a failure
\* recorded and exit code 1.
C15_ExitZeroOnlyVerified ==
    script = "run_tests" =>
        /\ (Exited /\ exitCode = 0) =>
                /\ \E j \in VerifyEntries : ~log[j].failed
                /\ found[1] # Nothing
                /\ Qualifies(found[1][1], selected[1].SlotDateTime, PatientId)
        /\ \A j \in VerifyEntries :
                (log[j].failed \/ found[1] = Nothing) =>
                    /\ failed # <<>>
                    /\ exitCode = 1
                    /\ log[j].failed =>
                            failed[Len(failed)] = "Could not fetch appointments"
                    /\ ~log[j].failed =>
                            \E k \in 1..Len(failed) :
                                failed[k] = "Appointment NOT found at new time"

\* exit 0 on an appointment whose appointmentHour is written differently from
\* the slot's SlotDateTime
C15_Witness ==
    /\ script = "run_tests"
    /\ Exited /\ exitCode = 0
    /\ VerifyEntries # {}
    /\ found[1] # Nothing
    /\ found[1][1].appointmentHour # selected[1].SlotDateTime

-----------------------------------------------------------------------------
(* Find-or-create against a fixed transport *)

\* what the first GET lists, nothing if it failed
ListedFirst ==
    IF HttpFailure(mock.existing) \/ mock.existing.shape # "list" THEN <<>>
    ELSE mock.existing.list

\* the listed appointments of the patient that have an appointmentId
Usable ==
    {i \in 1..Len(ListedFirst) :
        /\ ListedFirst[i].patientId = PatientId
        /\ Truthy(ListedFirst[i].appointmentId)}

\* the first GET has been answered
PastFirstGet == mock # NoMock /\ pc \notin {"authenticate", "get_existing"}

\* C16: once the first GET is answered: if it lists an appointment of the
\* patient with an appointmentId, the run goes on with the first such
\* appointment and sends neither the slot search for scheduling nor a
\* schedule request; otherwise, and only then, it searches and schedules on
\* the first available slot.
C16_FindOrCreate ==
    PastFirstGet =>
        IF Usable # {}
        THEN /\ \E i \in Usable :
                    /\ \A k \in Usable : i <= k
                    /\ appointment_id = ListedFirst[i].appointmentId
                    /\ schedule_time = ListedFirst[i].appointmentHour
             /\ \A j \in Entries : log[j].site \notin {"schedule_slots", "schedule"}
             /\ pc = "search_reschedule"
        ELSE /\ pc = "search_reschedule" => ScheduleEntries # {}
             /\ \A j \in ScheduleEntries :
                    /\ \E k \in Entries : k < j /\ log[k].site = "schedule_slots"
                    /\ log[j].time =
                          available_slots(mock.search.ExternalSearchSlot)[1].SlotDateTime

-----------------------------------------------------------------------------
(* The episode of the reschedule requests of run_tests *)

\* C17: every reschedule slot search and every reschedule request of
\* run_tests has RescheduleFlag set and carries an episode of type Consultas
\* whose EpisodeID is the appointment ID phase 2 ended with, which is not
\* empty and does not change in phase 3 or 4.
C17_RescheduleEpisode ==
    [][script = "run_tests" =>
        /\ \A j \in 1..Len(log') :
                log'[j].site \in {"reschedule_slots", "reschedule"} =>
                    /\ log'[j].reschedule
                    /\ log'[j].etype = "Consultas"
                    /\ log'[j].episode = appointment_id'
                    /\ Truthy(log'[j].episode)
        /\ pc \in {"search_reschedule", "reschedule", "verify"} =>
                appointment_id' = appointment_id]_vars

\* a run that scheduled a new appointment, looked its ID up and sent both
\* reschedule requests
C17_Witness ==
    /\ script = "run_tests"
    /\ \E j \in Entries : log[j].site = "schedule" /\ log[j].etype = "Ficha-ID"
    /\ \E j \in Entries : log[j].site = "reschedule_slots" /\ log[j].episode = "A2"
    /\ \E j \in Entries : log[j].site = "reschedule" /\ log[j].episode = "A2"

-----------------------------------------------------------------------------
(* Properties of one call of a client method *)

\* schedule_appointment was called with a slot that has every key it reads
ScheduleCalled ==
    /\ cpc = "ret"
    /\ c_fn = "schedule_appointment"
    /\ SlotComplete(c_slot[1])

\* something raised inside the try of schedule_appointment: no token to build
\* the header from, the transport, or response.json() on a 200 body that is
\* not JSON
ScheduleRaised ==
    \/ ~Truthy(c_tok)
    \/ c_resp[1].raises
    \/ (c_resp[1].status = 200 /\ c_resp[1].shape = "other")

\* C18: schedule_appointment returns None when the status is not 200, when
\* the request raised, or when the 200 body is an object with truthy
\* errorDetails, with or without an appointmentID; in every other case it
\* returns the body of the response as it is.
C18_ScheduleNoneOrBody ==
    ScheduleCalled =>
        IF \/ ScheduleRaised
           \/ c_resp[1].status # 200
           \/ (c_resp[1].shape = "object" /\ Truthy(c_resp[1].errorDetails))
        THEN c_out = Returned(Nothing)
        ELSE c_out = Returned(Some(c_resp[1]))

\* errorDetails next to an appointmentID
C18_Witness ==
    /\ ScheduleCalled
    /\ Truthy(c_tok)
    /\ c_resp[1].status = 200
    /\ c_resp[1].shape = "object"
    /\ Truthy(c_resp[1].errorDetails)
    /\ c_resp[1].appointmentID = "A1"
    /\ c_out = Returned(Nothing)

-----------------------------------------------------------------------------
(* search_slots: failures and empty results *)

\* the request raised: _get_auth_headers() has no token to build the header
\* from, or session.post raised
SlotsRaised == ~Truthy(sl_token) \/ sl_resp.raises

\* the answer carries ErrorDetails with a truthy Error
SlotsError ==
    sl_resp.status = 200 /\ sl_resp.shape = "object" /\ sl_resp.ErrorDetails = "errorTruthy"

\* the slots of the answer that are not occupied: none when ExternalSearchSlot
\* is missing or null
SlotsOffered ==
    {k \in 1..Len(sl_resp.ExternalSearchSlot) :
        ~Truthy(sl_resp.ExternalSearchSlot[k].Occupation)}

\* C19: search_slots returns None exactly when the status is not 200, the
\* request raised, or ErrorDetails carries a truthy Error; in every other
\* case, a falsy Error included, it returns a list, and an answered JSON
\* object without an available slot yields the empty list, not None.
C19_NoneExactlyOnFailure ==
    spc = "ret" =>
        /\ sl_result = Nothing <=> (SlotsRaised \/ sl_resp.status # 200 \/ SlotsError)
        /\ (/\ ~SlotsRaised
            /\ sl_resp.status = 200
            /\ sl_resp.shape = "object"
            /\ ~SlotsError
            /\ SlotsOffered = {}) => sl_result = Some(<<>>)

-----------------------------------------------------------------------------
(* No request without a token *)

\* the call was not ended by a KeyError on its slot argument
CallRan == cpc = "ret" /\ (c_fn = "schedule_appointment" => SlotComplete(c_slot[1]))

\* C20: a call of search_slots, schedule_appointment or get_appointments made
\* while no token is stored sends no request and returns None, and every
\* request such a call sends has the stored token in its Authorization
\* header.
C20_NoTokenNoRequest ==
    cpc = "ret" =>
        /\ ~Truthy(c_tok) =>
                /\ c_req = Nothing
                /\ CallRan => c_out = Returned(Nothing)
        /\ c_req # Nothing =>
                /\ Truthy(c_tok)
                /\ c_req = Some(c_tok)
        /\ (CallRan /\ Truthy(c_tok)) => c_req = Some(c_tok)

\* get_appointments without a token, where the transport would have answered
\* with a list
C20_Witness ==
    /\ cpc = "ret"
    /\ c_fn = "get_appointments"
    /\ c_tok = None
    /\ c_resp[1].status = 200
    /\ c_resp[1].shape = "list"
    /\ Len(c_resp[1].list) = 1
    /\ c_req = Nothing
    /\ c_out = Returned(Nothing)

-----------------------------------------------------------------------------
(* authenticate and the token *)

\* C21: when authenticate returns True the client holds a non-empty token,
\* and the call that follows on the client sends its request with it; when
\* the token endpoint answers another status than 200, answers without
\* access_token, or the request raises, authenticate returns False.
C21_TrueMeansToken ==
    [][/\ cpc = "auth" =>
            /\ c_out' = Returned(TRUE) => Truthy(c_tok')
            /\ (\/ c_resp[1].raises
                \/ c_resp[1].status # 200
                \/ c_resp[1].access_token = Absent) => c_out' = Returned(FALSE)
       /\ (cpc = "authenticated" /\ c_out = Returned(TRUE) /\ c_out'.kind = "return") =>
            c_req' = Some(c_tok)]_vars

-----------------------------------------------------------------------------
(* the environment of the client *)

\* the required variables that are unset or empty
MissingNames == {n \in RequiredNames : environ[n] \in {Absent, ""}}

Constructed == c_out # Pending

\* C22: when a required variable is unset or empty the constructor raises
\* EnvironmentError with the names of all the missing variables (and it
\* raises in no other case), and the script exits 1 with no request sent.
C22_MissingConfigExitsOne ==
    /\ Constructed =>
        /\ c_out.kind = "raise" <=> MissingNames # {}
        /\ c_out.kind = "raise" =>
            /\ c_out.value.error = "EnvironmentError"
            /\ {c_out.value.missing[i] : i \in 1..Len(c_out.value.missing)}
                    = MissingNames
    /\ MissingNames # {} =>
        /\ log = <<>>
        /\ pc \in {"args", "construct", "done"}
        /\ pc = "done" => exitCode = 1

C22_Witness ==
    /\ script = "run_tests"
    /\ Constructed
    /\ Cardinality(MissingNames) = 2
    /\ environ["GLINTT_BASE_URL"] = Absent
    /\ environ["GLINTT_USERNAME"] = ""
    /\ pc = "done"
    /\ exitCode = 1

-----------------------------------------------------------------------------
(* occupied slots *)

ScheduleSent == Len(log') > Len(log) /\ log'[Len(log')].ep = "schedule"

\* C23: every ExternalScheduleAppointment request a script sends is for a
\* slot whose Occupation is falsy, and the selection of the full workflows
\* passes on to the request only a listed slot that is not occupied.
C23_NoOccupiedSlotScheduled ==
    [][/\ ScheduleSent =>
            /\ selected' # Nothing
            /\ ~Truthy(selected'[1].Occupation)
            /\ log'[Len(log')].time = selected'[1].SlotDateTime
       /\ (script \in FullScripts /\ pc = "prompt" /\ pc' = "schedule") =>
            \E k \in 1..Len(slots) :
                /\ selected' = Some(slots[k])
                /\ ~Truthy(slots[k].Occupation)]_vars

\* a full workflow listed an occupied slot first and sent its request
C23_Witness ==
    /\ script = "full_schedule"
    /\ Len(slots) = 2
    /\ Truthy(slots[1].Occupation)
    /\ selected = Some(slots[2])
    /\ Len(log) = 3
    /\ log[3].ep = "schedule"

-----------------------------------------------------------------------------
(* the check of the original time *)

\* the verification step of run_tests that fetched the appointments and
\* went through both checks
VerifiedStep ==
    /\ script = "run_tests"
    /\ pc = "verify"
    /\ pc' = "done"
    /\ log'[Len(log')].site = "verify"
    /\ ~log'[Len(log')].failed

\* what the check of the new time recorded
NewTimePassed == IF found'[1] # Nothing
                 THEN Append(passed, "Found appointment at new time") ELSE passed
NewTimeFailed == IF found'[1] # Nothing
                 THEN failed ELSE Append(failed, "Appointment NOT found at new time")

\* the status read of the appointment found at the original time
OldStatus == get_status(found'[2][1])

\* C24: in the verification of run_tests the check of the original time
\* never records a failure; it records a pass when no appointment is at
\* the original time or the one found is RESCHEDULED or ANNULLED, and
\* leaves both lists as they are when the one found has another status
\* (SCHEDULED, or none at all), so that the exit code of such a run is 0
\* unless another check recorded a failure.
C24_OldTimeOnlyNoted ==
    [][VerifiedStep =>
        /\ failed' = NewTimeFailed
        /\ found'[2] = Nothing =>
                passed' = Append(NewTimePassed, "No appointment at original time")
        /\ (found'[2] # Nothing /\ OldStatus = "RESCHEDULED") =>
                passed' = Append(NewTimePassed, "Original appointment marked")
        /\ (found'[2] # Nothing /\ OldStatus = "ANNULLED") =>
                passed' = Append(NewTimePassed, "Original appointment marked")
        /\ (found'[2] # Nothing /\ OldStatus \notin {"RESCHEDULED", "ANNULLED"}) =>
                /\ passed' = NewTimePassed
                /\ exitCode' = ExitCodeOf(NewTimeFailed)]_vars

\* the run exits 0 with the appointment still SCHEDULED at the original time
C24_Witness ==
    /\ script = "run_tests"
    /\ pc = "done"
    /\ exitCode = 0
    /\ found[2] # Nothing
    /\ found[2][1].status = "SCHEDULED"
    /\ found[2][1].appointmentHour = schedule_time
    /\ log[Len(log)].site = "verify"

-----------------------------------------------------------------------------
(* how run_tests ends *)

\* C25: whatever the remote answers, a run of run_tests never ends in an
\* uncaught exception: it ends by reaching the summary and the exit of main.
C25_NoUncaughtException ==
    script = "run_tests" => pc # "crashed"

-----------------------------------------------------------------------------
(* glintt_reschedule.py --auto *)

\* the listed slots whose SlotDateTime is not the original time
AutoDifferent == {k \in 1..Len(slots') : slots'[k].SlotDateTime # schedule_time}

AutoRun == script = "glintt_reschedule" /\ auto_mode

\* C26: glintt_reschedule.py --auto selects the first available slot whose
\* SlotDateTime differs from the original time of the result file, and the
\* first available slot when no slot differs or no original time is known;
\* in both cases it goes on to the reschedule request for the selected slot
\* with no failure reported.
C26_AutoSelectsDifferent ==
    [][/\ (AutoRun /\ pc = "search" /\ pc' = "schedule") =>
            /\ exitCode' = Running
            /\ selected' =
                Some(slots'[IF schedule_time = NoField \/ AutoDifferent = {} THEN 1
                            ELSE CHOOSE k \in AutoDifferent :
                                    \A j \in AutoDifferent : k <= j])
       /\ (/\ AutoRun /\ pc = "search" /\ slots' # <<>>
           /\ \A k \in 1..Len(slots') : SlotComplete(slots'[k])) =>
            pc' = "schedule"
       /\ (AutoRun /\ pc = "schedule" /\ SlotComplete(selected[1])) =>
            /\ ScheduleSent
            /\ log'[Len(log')].reschedule
            /\ log'[Len(log')].episode = appointment_id
            /\ log'[Len(log')].time = selected[1].SlotDateTime]_vars

\* the first slot is at the original time, the second was rescheduled to
C26_Witness ==
    /\ AutoRun
    /\ Len(slots) = 2
    /\ slots[1].SlotDateTime = schedule_time
    /\ slots[2].SlotDateTime # schedule_time
    /\ selected = Some(slots[2])
    /\ log[Len(log)].ep = "schedule"
    /\ log[Len(log)].time = slots[2].SlotDateTime
    /\ exitCode = 0

-----------------------------------------------------------------------------
(* select_slot_interactive *)

InRange == entry'.kind = "int" /\ 1 <= entry'.n /\ entry'.n <= Len(slots)

\* the entry is the number of the slot at the original time
CurrentSlotEntered ==
    /\ InRange
    /\ script = "glintt_reschedule"
    /\ schedule_time # NoField
    /\ slots[entry'.n].SlotDateTime = schedule_time

\* C27: select_slot_interactive returns None on q or an interrupt, and
\* slots[k-1] on an entry k with 1 <= k <= len(slots); an entry that is no
\* number or is out of range (0 and negative numbers included) selects
\* nothing and the prompt comes again; in glintt_reschedule.py the number of
\* the current slot selects it only when the question is answered y.
C27_SelectByNumber ==
    [][pc = "prompt" =>
        /\ entry'.kind \in {"q", "interrupt"} => c_out' = Returned(Nothing)
        /\ (InRange /\ ~CurrentSlotEntered) => c_out' = Returned(Some(slots[entry'.n]))
        /\ (entry'.kind \in {"text", "int"} /\ ~InRange) =>
                (c_out' = Again /\ pc' = "prompt")
        /\ CurrentSlotEntered =>
            /\ entry'.answer = "y" => c_out' = Returned(Some(slots[entry'.n]))
            /\ entry'.answer = "n" => (c_out' = Again /\ pc' = "prompt")
            /\ entry'.answer = "interrupt" => c_out' = Returned(Nothing)
        /\ (c_out'.kind = "return" /\ c_out'.value # Nothing) =>
                (InRange /\ c_out'.value = Some(slots[entry'.n]))]_vars

\* the current slot was entered, confirmed with y and returned
C27_Witness ==
    /\ script = "glintt_reschedule"
    /\ pc = "returned"
    /\ Len(slots) = 2
    /\ entry.kind = "int"
    /\ entry.n = 2
    /\ entry.answer = "y"
    /\ slots[2].SlotDateTime = schedule_time
    /\ c_out = Returned(Some(slots[2]))

-----------------------------------------------------------------------------
(* the result file between glintt_schedule.py and glintt_reschedule.py *)

\* glintt_reschedule.py has read the file of the schedule run
FileRead == script = "glintt_reschedule" /\ pc # "args" /\ result_file # NoFile

\* the schedule request of the first run, and what its answer carried
ScheduleRequests == {k \in 1..Len(log) : log[k].site = "schedule"}
ReturnedId == result_file[1].result.appointmentID

\* C28: glintt_reschedule.py --from-file on the file glintt_schedule.py
\* wrote takes as episode ID the appointmentID the schedule call returned
\* and as original time the SlotDateTime of the scheduled slot, and sends
\* its slot search with that episode ID; when the schedule answer carried
\* no appointmentID it exits 1 with no request sent.
C28_RoundTrip ==
    FileRead =>
        \E k \in ScheduleRequests :
            /\ ScheduleRequests = {k}
            /\ schedule_time = log[k].time
            /\ appointment_id = IF ReturnedId = Absent THEN None ELSE ReturnedId
            /\ ReturnedId = Absent =>
                    (pc = "done" /\ exitCode = 1 /\ Len(log) = k)
            /\ ReturnedId # Absent =>
                    \A j \in (k + 1)..Len(log) :
                        log[j].ep = "search" => log[j].episode = ReturnedId

\* the reschedule run searched slots for the appointment the first run made
C28_Witness ==
    /\ FileRead
    /\ ReturnedId = "A2"
    /\ appointment_id = "A2"
    /\ schedule_time = <<"1", ".", "5", "Z">>
    /\ log[Len(log)].ep = "search"
    /\ log[Len(log)].episode = "A2"

-----------------------------------------------------------------------------
(* the pages of get_todays_appointments *)

\* the lists of the first n pages, one after the other
RECURSIVE PagesUpTo(_)
PagesUpTo(n) ==
    IF n = 0 THEN <<>> ELSE PagesUpTo(n - 1) \o page_log[n].data[1]

PagesDone == script = "appointment" /\ pc = "returned"

\* C29: get_todays_appointments requests the pages take=100, skip=0, 100,
\* 200, ... each once and in this order, goes on only after a page of at
\* least 100 records, returns after the first shorter page the records of
\* all pages in the order requested, and returns None, whatever was fetched,
\* as soon as a page fails (status other than 200, body that is no list,
\* exception).
C29_PagesInOrder ==
    script = "appointment" =>
        /\ \A i \in 1..Len(page_log) :
            /\ page_log[i].take = 100
            /\ page_log[i].skip = 100 * (i - 1)
            /\ i < Len(page_log) =>
                /\ page_log[i].data # Nothing
                /\ Len(page_log[i].data[1]) >= 100
        /\ (page_log # <<>> /\ page_log[Len(page_log)].data = Nothing) =>
                (PagesDone /\ c_out = Returned(Nothing))
        /\ (/\ page_log # <<>> /\ page_log[Len(page_log)].data # Nothing
            /\ Len(page_log[Len(page_log)].data[1]) < 100) =>
                (PagesDone /\ c_out = Returned(Some(PagesUpTo(Len(page_log)))))
        /\ (PagesDone /\ page_log # <<>> /\ c_out.value # Nothing) =>
                Len(page_log[Len(page_log)].data[1]) < 100
        /\ (PagesDone /\ page_log = <<>>) =>
                (~Truthy(token) /\ c_out = Returned(Nothing))

\* a full page and a page of 50: 150 records returned
C29_Witness ==
    /\ PagesDone
    /\ Len(page_log) = 2
    /\ c_out.value # Nothing
    /\ Len(c_out.value[1]) = 150
    /\ c_out.value[1][1] = <<0, 1>>
    /\ c_out.value[1][150] = <<100, 50>>

-----------------------------------------------------------------------------
(* search_with_variations *)

\* the items a search answered, as search_with_variations takes them
Answered ==
    IF token = None \/ c_resp'[1].raises \/ c_resp'[1].status # 200
       \/ c_resp'[1].body # "list"
    THEN <<>> ELSE c_resp'[1].items

\* the first item of the results that has the ID
FirstWith(id) ==
    all_results'[CHOOSE k \in 1..Len(all_results') :
                    /\ all_results'[k].ID = id
                    /\ \A j \in 1..(k - 1) : all_results'[j].ID # id]

\* C30: search_with_variations gathers the answers of the variations in the
\* order of the variations, each in the order of its response, and returns
\* a list in which no two items share an ID, which holds for every truthy ID
\* of the gathered items exactly the first item with that ID, and which holds
\* no item whose ID is missing or falsy.
C30_FirstOfEachId ==
    [][(script = "hr_search" /\ pc = "variation") =>
        /\ all_results' = all_results \o Answered
        /\ pc' = "returned" =>
            /\ c_out' = Returned(unique')
            /\ \A i, j \in 1..Len(unique') : unique'[i].ID = unique'[j].ID => i = j
            /\ \A k \in 1..Len(all_results') :
                    all_results'[k].ID \notin {"", Absent} =>
                        \E i \in 1..Len(unique') :
                            unique'[i] = FirstWith(all_results'[k].ID)
            /\ \A i \in 1..Len(unique') :
                    /\ unique'[i].ID \notin {"", Absent}
                    /\ unique'[i] = FirstWith(unique'[i].ID)]_vars

\* three items gathered: H1 twice under two names and an item without ID
C30_Witness ==
    /\ script = "hr_search"
    /\ pc = "returned"
    /\ Len(all_results) = 3
    /\ all_results[1] = [ID |-> "H1", Name |-> "b"]
    /\ all_results[2].ID = Absent
    /\ all_results[3] = [ID |-> "H1", Name |-> "a"]
    /\ unique = <<[ID |-> "H1", Name |-> "b"]>>

====
